---- MODULE Spec2Model ----
(***************************************************************************)
(* Model of the Goose logger thread (src/src/logger.rs): logger_main, the  *)
(* helpers open_log_file and write_to_log_file, the log channel it reads,  *)
(* and the CSV rendering of log records (prepare_csv and the *_csv_header  *)
(* functions).                                                             *)
(***************************************************************************)
EXTENDS Integers, Sequences, FiniteSets, TLC

VARIABLES
    configuration,  \* GooseConfiguration: the log paths and the log formats
    pc,             \* position of logger_main
    log_file,       \* the four Option<BufWriter<File>> of logger_main
    flushed,        \* the streams flush() was called on, in call order
    channel,        \* messages in flight on the unbounded flume channel
    senders,        \* TRUE while at least one Sender is alive
    sent,           \* number of messages sent so far
    received,       \* the messages recv_async() has returned, in order
    create_errors,  \* streams for which "failed to create" was logged
    warnings,       \* per named path, the count of "failed to write to" lines
    result,         \* return value of logger_main once it has returned
    csv_input,      \* a log record handed to format_message or prepare_csv
    csv_cells,      \* the rendered fields of the row, in order
    csv_row,        \* the row prepare_csv returned
    formatted_text, \* the String format_message returned
    file_text,      \* the text write_to_log_file handed to BufWriter::write
    accepted_text,  \* the text BufWriter::write accepted
    format_str,     \* the &str GooseLogFormat::from_str is called on
    format_parsed,  \* the Result from_str returned, <<>> before the call
    gaggle_manager, \* the gaggle manager: state, task sets, counters
    gaggle_workers, \* per gaggle worker: state, task sets, users, records
    inbox,          \* metric batches on their way to the manager
    options,        \* the GooseConfiguration setup_loggers is called on
    defaults,       \* the GooseDefaults setup_loggers is called with
    setup_result,   \* the pair setup_loggers returned
    spawned,        \* number of logger threads setup_loggers has spawned
    attack,         \* the finalised configuration of the Attack Controller
    phase,          \* the state of the Attack Controller
    now,            \* the monotonic clock, in throttle refill periods
    t_start,        \* the clock when the controller began hatching
    hatched,        \* number of users hatched so far
    stop_reason,    \* why the controller left Running
    metrics,        \* the metrics the run reports: users and duration
    tokens,         \* tokens in the throttle channel
    issued,         \* HTTP requests issued: the total, and per instant of
                    \* the clock over the last second
    user_state,     \* per GooseUser: where its task is, and its request
    hits,           \* per endpoint, the requests the server has seen and
                    \* the failures it has answered them with
    aggregator,     \* per endpoint, the counters of the Metrics Aggregator
    metric_channel, \* metric events in flight to the aggregator
    log_senders,    \* per message sent on the log channel, who sent it
    shutdown,       \* the step of the shutdown the controller is at
    abandoned       \* the users the controller stopped waiting for

vars == <<configuration, pc, log_file, flushed, channel, senders, sent,
          received, create_errors, warnings, result,
          csv_input, csv_cells, csv_row, formatted_text, file_text,
          accepted_text,
          format_str, format_parsed,
          gaggle_manager, gaggle_workers, inbox,
          options, defaults, setup_result, spawned,
          attack, phase, now, t_start, hatched, stop_reason, metrics,
          tokens, issued,
          user_state, hits, aggregator, metric_channel, log_senders,
          shutdown, abandoned>>

logger_vars == <<configuration, pc, log_file, flushed, channel, senders, sent,
                 received, create_errors, warnings, result>>

csv_vars == <<csv_input, csv_cells, csv_row>>

parse_vars == <<format_str, format_parsed>>

gaggle_vars == <<gaggle_manager, gaggle_workers, inbox>>

format_vars == <<formatted_text, file_text, accepted_text, parse_vars>>

setup_vars == <<options, defaults, setup_result, spawned>>

controller_vars == <<attack, phase, hatched, stop_reason, metrics>>

clock_vars == <<now, t_start, tokens, issued>>

run_vars == <<user_state, hits, aggregator, metric_channel, log_senders,
              shutdown, abandoned>>

\* Everything outside logger_main's own state.
nonlogger_vars == <<csv_vars, format_vars, gaggle_vars,
                    setup_vars, controller_vars,
                    clock_vars, run_vars>>

----------------------------------------------------------------------------
(* Bounds of the model.                                                    *)

\* Number of messages the senders put on the channel in one run.
MaxSends == 2

\* Length of the strings in the log records handed to prepare_csv.
MaxLen == 1

\* The largest throttle_requests (requests per second) of a timed run.
MaxThrottle == 2

\* The largest run_time of a timed run, in seconds.
MaxRunTime == 2

\* The largest number of users of a timed run.
MaxUsers == 3

\* The longest time the shutdown of a timed run takes, in clock ticks.
MaxShutdownTicks == 1

----------------------------------------------------------------------------
(* Types of logger.rs.                                                     *)

\* enum GooseLog: one variant per log stream.
GooseLog == {"Debug", "Error", "Request", "Task"}

\* enum GooseLogFormat.
GooseLogFormat == {"Csv", "Json", "Raw", "Pretty"}

\* The None that ends logging, as sent on the channel.
None == [variant |-> "None", id |-> 0]

\* A non-empty path for each stream; "" disables the stream.
PathOf(s) ==
    CASE s = "Debug" -> "debug.log"
      [] s = "Error" -> "error.log"
      [] s = "Request" -> "request.log"
      [] s = "Task" -> "task.log"

\* Outcomes of one BufWriter::write of an event record: the record is taken
\* (into the buffer or the file), or the underlying write fails.
WriteOutcomes == {"Ok", "Err"}

\* The header is the first write to a fresh, empty buffer of at least 64 KiB:
\* it is copied into the buffer and no I/O happens.
HeaderWriteOutcomes == {"Ok"}

\* Outcomes of BufWriter::flush.
FlushOutcomes == {"Ok", "Err"}

\* A BufWriter that was never opened: Option::None.  `lines` is what the
\* file of the stream holds.
NoFile == [open |-> FALSE, lines |-> <<>>, writes |-> 0, flushes |-> 0,
           synced |-> FALSE, capacity |-> 0]

\* A freshly created (truncated) file behind an empty buffer.
NewFile == [open |-> TRUE, lines |-> <<>>, writes |-> 0, flushes |-> 0,
            synced |-> FALSE, capacity |-> 0]

----------------------------------------------------------------------------
(* Helpers of logger_main.                                                 *)

\* The header line of stream s (debug_csv_header() and the like), as a line.
HeaderLine(s) == [type |-> "header", variant |-> s, id |-> 0, format |-> "Csv"]

\* format_message: renders the message in the configured format of its type.
format_message(message) ==
    [type |-> "event", variant |-> message.variant, id |-> message.id,
     format |-> configuration.format[message.variant]]

\* Mutant of open_log_file: a failed File::create still yields a writer.
open_log_file_ignoring_error(log_file_path, buffer_capacity, created) ==
    IF log_file_path = "" THEN NoFile
    ELSE [NewFile EXCEPT !.capacity = buffer_capacity]

\* open_log_file: None for an empty path or when File::create fails, and
\* else BufWriter::with_capacity(buffer_capacity, f) on the created file.
open_log_file(log_file_path, buffer_capacity, created) ==
    IF log_file_path = "" THEN NoFile
    ELSE IF created THEN [NewFile EXCEPT !.capacity = buffer_capacity]
    ELSE NoFile

\* open_log_file logs error!("failed to create ...") exactly when create fails.
open_log_file_error(log_file_path, created) ==
    log_file_path # "" /\ ~created

\* write_to_log_file: one write of the line plus "\n"; a failed write drops
\* the line.
write_to_log_file(file, formatted_message, outcome) ==
    [file EXCEPT !.writes = @ + 1,
                 !.lines = IF outcome = "Ok" THEN Append(@, formatted_message)
                           ELSE @]

\* write_to_log_file warns on every failed write, and always names
\* self.debug_log whatever file the write was for.
write_warnings(w, outcome) ==
    IF outcome = "Err"
    THEN [w EXCEPT ![configuration.log["Debug"]] = @ + 1]
    ELSE w

\* Mutant of writes_header: the header is written whatever the format.
writes_header_always(format) == TRUE

\* The header is written when the format is Csv (and the file is open).
writes_header(format) == format = "Csv"

\* Mutant of after_write: a failed write is propagated with `?` and
\* logger_main returns at once.
after_write_propagating(outcome, next_pc) ==
    IF outcome = "Err" THEN "done" ELSE next_pc

\* `let _ = self.write_to_log_file(..)`: the result is ignored and
\* logger_main goes on with its next statement.
after_write(outcome, next_pc) == next_pc

\* Mutant of log_file_for: the Error arm hands out the request log.
log_file_for_swapped(variant) ==
    IF variant = "Error" THEN "Request" ELSE variant

\* The match of the receive loop: the log file of the message's own type.
log_file_for(variant) == variant

\* Mutant of after_receive: the loop breaks after any message.
\* Mutant of after_receive: a None does not end the loop.
after_receive_past_none(received_message) == "recv"

after_receive_once(received_message) == "flush"

\* The receive loop continues on Some(message) and breaks on None.
after_receive(received_message) ==
    IF received_message = None THEN "flush" ELSE "recv"

----------------------------------------------------------------------------
(* The configurations and the initial state.                               *)

AllPaths == {""} \cup { PathOf(s) : s \in GooseLog }

\* The log formats of a run: all four streams share one format (as in
\* tests/defaults.rs), or one stream is Csv and the others keep the built-in
\* default Json.
FormatChoices ==
    { [s \in GooseLog |-> f] : f \in GooseLogFormat }
        \cup { [s \in GooseLog |-> IF s = c THEN "Csv" ELSE "Json"] :
                 c \in GooseLog }

\* The log paths of a run: each stream is disabled ("") or has its own path.
\* setup_loggers spawns logger_main only if at least one path is not empty.
PathChoices ==
    { p \in [GooseLog -> AllPaths] :
        /\ \A s \in GooseLog : p[s] \in {"", PathOf(s)}
        /\ \E s \in GooseLog : p[s] # "" }

\* A configuration with these paths and formats, and request_body and
\* no_debug_body at their built-in default, false.
Configured(l, f) ==
    [log |-> l, format |-> f, request_body |-> FALSE, no_debug_body |-> FALSE]

Configurations ==
    { Configured(l, f) : l \in PathChoices, f \in FormatChoices }

NoCsv == [kind |-> "none", name |-> <<>>, url |-> <<>>, error |-> <<>>,
          n |-> 0, b |-> FALSE, some |-> FALSE]

LoggerInit ==
    /\ configuration \in Configurations
    /\ pc = "open"
    /\ log_file = [s \in GooseLog |-> NoFile]
    /\ flushed = <<>>
    /\ channel = <<>>
    /\ senders = TRUE
    /\ sent = 0
    /\ received = <<>>
    /\ create_errors = {}
    /\ warnings = [p \in AllPaths |-> 0]
    /\ result = "running"

CsvIdle ==
    /\ csv_input = NoCsv
    /\ csv_cells = <<>>
    /\ csv_row = <<>>

\* No message is being formatted.
FormatIdle ==
    /\ formatted_text = <<>>
    /\ file_text = <<>>
    /\ accepted_text = <<>>
    /\ format_str = <<>>
    /\ format_parsed = <<>>

\* The Option values of the configuration: None, or Some(value).
NoValue == <<>>

Some(value) == <<value>>

\* setup_loggers is not being called: it has returned the handle and the
\* Sender of the one logger thread that runs.
SetupIdle ==
    /\ options = [manager |-> FALSE, log |-> [s \in GooseLog |-> ""]]
    /\ defaults = [log |-> [s \in GooseLog |-> NoValue]]
    /\ setup_result = [handle |-> TRUE, tx |-> TRUE]
    /\ spawned = 1

\* The configuration of a run that is not looked at.
NoAttack == [users |-> 0, hatch_rate |-> 0, run_time |-> 0,
             throttle_requests |-> 0, no_reset_metrics |-> FALSE,
             workers |-> 0]

\* The metrics before the run has reported anything.
NoMetrics == [users |-> 0, duration |-> 0]

\* The Attack Controller is not looked at.
ControllerIdle ==
    /\ attack = NoAttack
    /\ phase = "Running"
    /\ hatched = 0
    /\ stop_reason = "none"
    /\ metrics = NoMetrics

\* The clock and the throttle are not looked at.
ClockIdle ==
    /\ now = 0
    /\ t_start = 0
    /\ tokens = 0
    /\ issued = [total |-> 0, window |-> <<>>]

\* The paths the users request in the tests (INDEX_PATH, ABOUT_PATH).
Endpoints == {"/", "/about.html"}

\* The counters the aggregator keeps per endpoint, at zero.
NoRequests == [counter |-> 0, success_count |-> 0, fail_count |-> 0]

\* What the server has seen of an endpoint: the requests, and how many of
\* them it answered with a failure.
NoHits == [seen |-> 0, failed |-> 0]

\* The users, the aggregator and the shutdown are not looked at.
\* No gaggle: this process is neither Manager nor Worker.
GaggleIdle ==
    /\ gaggle_manager = <<>>
    /\ gaggle_workers = <<>>
    /\ inbox = <<>>

\* No user runs.
UsersIdle ==
    /\ user_state = <<>>
    /\ hits = [e \in Endpoints |-> NoHits]
    /\ aggregator = [e \in Endpoints |-> NoRequests]
    /\ metric_channel = <<>>
    /\ log_senders = <<>>
    /\ shutdown = "none"
    /\ abandoned = {}

RunIdle == UsersIdle /\ GaggleIdle

\* Nothing but logger_main is looked at.
OnlyLogger == CsvIdle /\ FormatIdle /\ ControllerIdle /\ ClockIdle /\ RunIdle

Init == LoggerInit /\ OnlyLogger /\ SetupIdle

----------------------------------------------------------------------------
(* The senders: GooseUsers and the controller.                             *)

\* A GooseUser sends a log message of some type. (Once logger_main has
\* returned the Receiver is gone and a send fails without queueing anything.)
\* Mutant of is_full: a channel bounded to one pending message.
is_full_bounded(chan) == Len(chan) >= 1

\* flume::unbounded(): the channel has no capacity, so it is never full and
\* a send never waits for room.
is_full(chan) == FALSE

\* Mutant of send: the message overtakes the pending ones.
send_first(chan, message) == <<message>> \o chan

\* Sender::send on the flume channel: the message queues up behind the
\* pending ones.
send(chan, message) == Append(chan, message)

SendLog ==
    /\ senders
    /\ pc # "done"
    /\ sent < MaxSends
    /\ ~is_full(channel)
    /\ \E v \in GooseLog :
          channel' = send(channel, [variant |-> v, id |-> sent + 1])
    /\ sent' = sent + 1
    /\ UNCHANGED <<configuration, pc, log_file, flushed, senders, received,
                   create_errors, warnings, result>>
    /\ UNCHANGED nonlogger_vars

\* The controller sends None: time to exit.
SendNone ==
    /\ senders
    /\ pc # "done"
    /\ sent < MaxSends
    /\ ~is_full(channel)
    /\ channel' = send(channel, None)
    /\ sent' = sent + 1
    /\ UNCHANGED <<configuration, pc, log_file, flushed, senders, received,
                   create_errors, warnings, result>>
    /\ UNCHANGED nonlogger_vars

\* Every Sender is dropped.
DropSenders ==
    /\ senders
    /\ senders' = FALSE
    /\ UNCHANGED <<configuration, pc, log_file, flushed, channel, sent,
                   received, create_errors, warnings, result>>
    /\ UNCHANGED nonlogger_vars

----------------------------------------------------------------------------
(* logger_main.                                                            *)

\* Mutant of buffer_capacity: the debug log and the request log get the
\* larger buffer when a body may be logged to either of them.
buffer_capacity_union(self, s) ==
    IF s \in {"Debug", "Request"} /\ (~self.no_debug_body \/ self.request_body)
    THEN 8 * 1024 * 1024
    ELSE 64 * 1024

\* The buffer_capacity logger_main hands to open_log_file for each log.
buffer_capacity(self, s) ==
    CASE s = "Debug" ->
            IF self.no_debug_body THEN 64 * 1024 ELSE 8 * 1024 * 1024
      [] s = "Request" ->
            IF self.request_body THEN 8 * 1024 * 1024 ELSE 64 * 1024
      [] OTHER -> 64 * 1024

\* Mutant of opened_log: the file is opened for appending, what it held
\* is kept.
opened_log_appending(s, created, outcome) ==
    LET file == open_log_file(configuration.log[s],
                              buffer_capacity(configuration, s), created)
    IN  IF file.open
        THEN [file EXCEPT !.lines = log_file[s].lines]
        ELSE log_file[s]

\* The state of stream s's log after the start of logger_main: the file is
\* opened, and the CSV header is written to it if the format is Csv.  A
\* file that is not opened is left as it is.
opened_log(s, created, outcome) ==
    LET file == open_log_file(configuration.log[s],
                              buffer_capacity(configuration, s), created)
    IN  IF file.open
        THEN IF writes_header(configuration.format[s])
             THEN write_to_log_file(file, HeaderLine(s), outcome)
             ELSE file
        ELSE log_file[s]

\* File::create is called for the non-empty paths only, and succeeds or fails.
CreateOutcomes ==
    { c \in [GooseLog -> BOOLEAN] :
        \A s \in GooseLog : configuration.log[s] = "" => c[s] }

\* The start of logger_main: opens the debug, error, request and task logs
\* and writes their CSV headers. File::create succeeds or fails per file.
OpenLogs ==
    /\ pc = "open"
    /\ \E created \in CreateOutcomes, outcome \in HeaderWriteOutcomes :
          /\ log_file' = [s \in GooseLog |-> opened_log(s, created[s], outcome)]
          /\ create_errors' =
                { s \in GooseLog :
                    open_log_file_error(configuration.log[s], created[s]) }
          /\ warnings' = write_warnings(warnings, outcome)
          /\ pc' = after_write(outcome, "recv")
    /\ UNCHANGED <<configuration, flushed, channel, senders, sent, received,
                   result>>
    /\ UNCHANGED nonlogger_vars

\* One turn of the receive loop on a message: format it, write it to the log
\* file of its type if that file is open, or break on None.
\* format_message runs into its unreachable!() when the format of the
\* message's log is None.
format_unreachable(message) == configuration.format[message.variant] = "None"

\* One turn of the receive loop.  An event is formatted before its log
\* file is looked at, so also when the file is not open.
Receive ==
    /\ pc = "recv"
    /\ channel # <<>>
    /\ LET received_message == Head(channel)
           s == log_file_for(received_message.variant)
       IN  /\ channel' = Tail(channel)
           /\ received' = Append(received, received_message)
           /\ IF received_message # None
                 /\ format_unreachable(received_message)
              THEN /\ pc' = "panicked"
                   /\ result' = "panic"
                   /\ UNCHANGED <<log_file, warnings>>
              ELSE /\ result' = result
                   /\ IF received_message # None /\ log_file[s].open
                      THEN \E outcome \in WriteOutcomes :
                              /\ log_file' =
                                    [log_file EXCEPT ![s] =
                                        write_to_log_file(@,
                                            format_message(received_message),
                                            outcome)]
                              /\ warnings' = write_warnings(warnings, outcome)
                              /\ pc' = after_write(outcome,
                                          after_receive(received_message))
                      ELSE /\ UNCHANGED <<log_file, warnings>>
                           /\ pc' = after_receive(received_message)
    /\ UNCHANGED <<configuration, flushed, senders, sent, create_errors>>
    /\ UNCHANGED nonlogger_vars

\* recv_async() fails once the channel is empty and every Sender is gone:
\* the `while let Ok(..)` loop ends.
\* Mutant of Disconnected: recv_async never returns an error.
DisconnectedNever == FALSE /\ UNCHANGED vars

\* recv_async returns Err: the channel is empty and has no sender left.
Disconnected ==
    /\ pc = "recv"
    /\ channel = <<>>
    /\ ~senders
    /\ pc' = "flush"
    /\ UNCHANGED <<configuration, log_file, flushed, channel, senders, sent,
                   received, create_errors, warnings, result>>
    /\ UNCHANGED nonlogger_vars

\* Mutant of flush_order: the logs are flushed in the order they were opened.
flush_order_as_opened == <<"Debug", "Error", "Request", "Task">>

\* The order of the flush statements at the end of logger_main.
flush_order == <<"Debug", "Request", "Task", "Error">>

\* Mutant of flush_log: the log is not flushed.
flush_log_skipped(file, outcome) == file

\* `if let Some(file) = log.as_mut() { let _ = file.flush().await; }`
flush_log(file, outcome) ==
    IF file.open
    THEN [file EXCEPT !.flushes = @ + 1, !.synced = (outcome = "Ok")]
    ELSE file

\* The end of logger_main: flushes every open log, in flush_order, ignoring
\* the results, and returns Ok(()).
FlushLogs ==
    /\ pc = "flush"
    /\ \E outcome \in { o \in [GooseLog -> FlushOutcomes] :
                          \A s \in GooseLog : ~log_file[s].open => o[s] = "Ok" } :
          log_file' = [s \in GooseLog |-> flush_log(log_file[s], outcome[s])]
    /\ flushed' = SelectSeq(flush_order, LAMBDA s : log_file[s].open)
    /\ pc' = "done"
    /\ result' = "Ok"
    /\ UNCHANGED <<configuration, channel, senders, sent, received,
                   create_errors, warnings>>
    /\ UNCHANGED nonlogger_vars

Next ==
    \/ SendLog
    \/ SendNone
    \/ DropSenders
    \/ OpenLogs
    \/ Receive
    \/ Disconnected
    \/ FlushLogs

Spec == Init /\ [][Next]_vars

\* The steps of logger_main itself.
LoggerMain == OpenLogs \/ Receive \/ Disconnected \/ FlushLogs

\* All four logs in the Json format, or the request log alone in the Csv
\* format.
FairInit ==
    /\ Init
    /\ \/ configuration =
             Configured([s \in GooseLog |-> PathOf(s)],
                        [s \in GooseLog |-> "Json"])
       \/ configuration =
             Configured([s \in GooseLog |->
                            IF s = "Request" THEN PathOf(s) ELSE ""],
                        [s \in GooseLog |-> "Csv"])

\* The logger thread keeps running; nothing obliges a sender to send or to
\* drop its sender.
FairSpec == FairInit /\ [][Next]_vars /\ WF_vars(LoggerMain)

\* ---------------------------------------------------------------------
\* The logger with the sender of every event: log_senders[id] is the user
\* that sent the event with that id.
\* ---------------------------------------------------------------------

\* The users that hold a clone of the sender.
LogUsers == {1, 2}

\* User u sends an event of some kind.
LogFrom(u) ==
    /\ senders
    /\ pc # "done"
    /\ sent < MaxSends
    /\ ~is_full(channel)
    /\ \E v \in GooseLog :
          channel' = send(channel, [variant |-> v, id |-> sent + 1])
    /\ sent' = sent + 1
    /\ log_senders' = Append(log_senders, u)
    /\ UNCHANGED <<configuration, pc, log_file, flushed, senders, received,
                   create_errors, warnings, result>>
    /\ UNCHANGED <<csv_vars, format_vars, gaggle_vars,
                   setup_vars, controller_vars,
                   clock_vars, user_state, hits, aggregator, metric_channel,
                   shutdown, abandoned>>

SendersInit ==
    /\ LoggerInit
    /\ \A s \in GooseLog : configuration.log[s] # ""
    /\ configuration.format["Request"] \in {"Csv", "Raw"}
    /\ OnlyLogger
    /\ SetupIdle

SendersNext ==
    \/ \E u \in LogUsers : LogFrom(u)
    \/ DropSenders
    \/ OpenLogs
    \/ Receive
    \/ Disconnected
    \/ FlushLogs

SpecSenders == SendersInit /\ [][SendersNext]_vars

\* ---------------------------------------------------------------------
\* The logger over files that may exist before the run, with both body
\* knobs free.
\* ---------------------------------------------------------------------

\* A line a previous run left in the log file of stream s.
StaleLine(s) == [type |-> "stale", variant |-> s, id |-> 0, format |-> "None"]

\* The log file of stream s as a previous run left it, not opened yet.
StaleFile(s) == [NoFile EXCEPT !.lines = <<StaleLine(s)>>]

\* All four logs, the request log only, or the debug log only.
FilePaths ==
    { p \in PathChoices :
        \/ \A s \in GooseLog : p[s] # ""
        \/ \A s \in GooseLog : p[s] # "" <=> s = "Request"
        \/ \A s \in GooseLog : p[s] # "" <=> s = "Debug" }

FilesInit ==
    /\ \E l \in FilePaths, f \in {"Csv", "Raw"} :
          configuration \in
              [log : {l}, format : {[s \in GooseLog |-> f]},
               request_body : BOOLEAN, no_debug_body : BOOLEAN]
    /\ pc = "open"
    /\ \/ log_file = [s \in GooseLog |-> NoFile]
       \/ log_file = [s \in GooseLog |-> StaleFile(s)]
    /\ flushed = <<>>
    /\ channel = <<>>
    /\ senders = TRUE
    /\ sent = 0
    /\ received = <<>>
    /\ create_errors = {}
    /\ warnings = [p \in AllPaths |-> 0]
    /\ result = "running"
    /\ OnlyLogger
    /\ SetupIdle

SpecFiles == FilesInit /\ [][Next]_vars

----------------------------------------------------------------------------
(* CSV rendering: the *_csv_header functions and prepare_csv.  Text is a    *)
(* sequence of characters; a piece of text that holds no comma, quote or    *)
(* line break (a number, true, None, a struct name) is one element.         *)

\* The characters log strings are built from: a letter, the comma, the
\* double quote and the line break.
Chars == {"a", ",", "\"", "\n"}

\* The strings of at most MaxLen characters.
Strings == UNION { [1..k -> Chars] : k \in 0..MaxLen }

\* debug_csv_header(): the column names, joined by commas in the source.
debug_csv_header == <<"tag", "request", "header", "body">>

\* error_csv_header().
error_csv_header ==
    <<"elapsed", "raw", "name", "final_url", "redirected", "response_time",
      "status_code", "user", "error">>

\* Mutant of requests_csv_header: success and update change places.
requests_csv_header_swapped ==
    <<"elapsed", "raw", "name", "final_url", "redirected", "response_time",
      "status_code", "update", "success", "user", "error",
      "coordinated_omission_elapsed", "user_cadence">>

\* requests_csv_header().
requests_csv_header ==
    <<"elapsed", "raw", "name", "final_url", "redirected", "response_time",
      "status_code", "success", "update", "user", "error",
      "coordinated_omission_elapsed", "user_cadence">>

\* tasks_csv_header().
tasks_csv_header ==
    <<"elapsed", "taskset_index", "task_index", "name", "run_time", "success",
      "user">>

\* The header logger_main writes for a stream.
csv_header(kind) ==
    CASE kind = "Debug" -> debug_csv_header
      [] kind = "Error" -> error_csv_header
      [] kind = "Request" -> requests_csv_header
      [] kind = "Task" -> tasks_csv_header

\* One placeholder of a format string with its argument: {} or {:?}, inside
\* \"..\" or bare.
Arg(field, quoted, debug) ==
    [field |-> field, quoted |-> quoted, debug |-> debug]

\* GooseLogger<GooseDebug>::prepare_csv: "\"{}\",\"{:?}\",\"{:?}\",\"{:?}\"".
debug_csv_format ==
    <<Arg("tag", TRUE, FALSE), Arg("request", TRUE, TRUE),
      Arg("header", TRUE, TRUE), Arg("body", TRUE, TRUE)>>

\* GooseLogger<GooseErrorMetric>::prepare_csv:
\* "{},\"{:?}\",\"{}\",\"{}\",{},{},{},{},\"{}\"".
error_csv_format ==
    <<Arg("elapsed", FALSE, FALSE), Arg("raw", TRUE, TRUE),
      Arg("name", TRUE, FALSE), Arg("final_url", TRUE, FALSE),
      Arg("redirected", FALSE, FALSE), Arg("response_time", FALSE, FALSE),
      Arg("status_code", FALSE, FALSE), Arg("user", FALSE, FALSE),
      Arg("error", TRUE, FALSE)>>

\* GooseLogger<GooseRequestMetric>::prepare_csv:
\* "{},\"{:?}\",\"{}\",\"{}\",{},{},{},{},{},{},{},{},{}".
request_csv_format ==
    <<Arg("elapsed", FALSE, FALSE), Arg("raw", TRUE, TRUE),
      Arg("name", TRUE, FALSE), Arg("final_url", TRUE, FALSE),
      Arg("redirected", FALSE, FALSE), Arg("response_time", FALSE, FALSE),
      Arg("status_code", FALSE, FALSE), Arg("success", FALSE, FALSE),
      Arg("update", FALSE, FALSE), Arg("user", FALSE, FALSE),
      Arg("error", FALSE, FALSE),
      Arg("coordinated_omission_elapsed", FALSE, FALSE),
      Arg("user_cadence", FALSE, FALSE)>>

\* GooseLogger<GooseTaskMetric>::prepare_csv: "{},{},{},\"{}\",{},{},{}".
task_csv_format ==
    <<Arg("elapsed", FALSE, FALSE), Arg("taskset_index", FALSE, FALSE),
      Arg("task_index", FALSE, FALSE), Arg("name", TRUE, FALSE),
      Arg("run_time", FALSE, FALSE), Arg("success", FALSE, FALSE),
      Arg("user", FALSE, FALSE)>>

\* The format string and arguments prepare_csv uses for a record type.
csv_format(kind) ==
    CASE kind = "Debug" -> debug_csv_format
      [] kind = "Error" -> error_csv_format
      [] kind = "Request" -> request_csv_format
      [] kind = "Task" -> task_csv_format

\* The type of a record field: a String, a number, a bool, the
\* GooseRawRequest of a metric, or one of the Options of a GooseDebug.
FieldType(field) ==
    CASE field \in {"name", "final_url", "error", "tag"} -> "string"
      [] field \in {"redirected", "success", "update"} -> "bool"
      [] field = "raw" -> "raw"
      [] field \in {"request", "header", "body"} -> "option"
      [] OTHER -> "number"

\* The String a field of the input record holds (for raw and the Options:
\* the String inside).
FieldString(input, field) ==
    CASE field \in {"name", "tag", "request"} -> input.name
      [] field \in {"final_url", "raw", "header"} -> input.url
      [] field \in {"error", "body"} -> input.error

\* Concatenation of a sequence of texts.
RECURSIVE Concat(_)
Concat(texts) ==
    IF texts = <<>> THEN <<>> ELSE Head(texts) \o Concat(Tail(texts))

\* Mutant of escape_debug: the characters are written as they are.
escape_debug_verbatim(c) == <<c>>

\* Debug ({:?}) of a str: inside double quotes, with the double quote and the
\* line break escaped by a backslash.
escape_debug(c) ==
    CASE c = "\"" -> <<"\\", "\"">>
      [] c = "\n" -> <<"\\", "n">>
      [] OTHER -> <<c>>

debug_str(s) ==
    <<"\"">> \o Concat([i \in 1..Len(s) |-> escape_debug(s[i])]) \o <<"\"">>

\* Display ({}) of a field: the String itself, the number, true or false.
display(input, field) ==
    CASE FieldType(field) = "string" -> FieldString(input, field)
      [] FieldType(field) = "bool" -> <<IF input.b THEN "true" ELSE "false">>
      [] FieldType(field) = "number" -> <<ToString(input.n)>>

\* Debug ({:?}) of a field: the derived Debug of the struct or Option, with
\* the String inside rendered by debug_str.
debug(input, field) ==
    CASE FieldType(field) = "raw" ->
            <<"GooseRawRequest { url: ">>
                \o debug_str(FieldString(input, field)) \o <<" }">>
      [] FieldType(field) = "option" /\ ~input.some -> <<"None">>
      [] FieldType(field) = "option" /\ input.some /\ field = "request" ->
            <<"Some(GooseRequestMetric { name: ">>
                \o debug_str(FieldString(input, field)) \o <<" })">>
      [] FieldType(field) = "option" /\ input.some /\ field # "request" ->
            <<"Some(">> \o debug_str(FieldString(input, field)) \o <<")">>

\* One placeholder filled in: the rendered value, put between double quotes
\* if the format string has them around the placeholder. Nothing is escaped.
csv_cell(input, arg) ==
    LET content == IF arg.debug THEN debug(input, arg.field)
                   ELSE display(input, arg.field)
    IN  [field |-> arg.field, quoted |-> arg.quoted, content |-> content,
         text |-> IF arg.quoted THEN <<"\"">> \o content \o <<"\"">>
                  ELSE content]

\* The placeholders of prepare_csv's format string, filled in, in order.
csv_cells_of(input) ==
    LET f == csv_format(input.kind)
    IN  [i \in 1..Len(f) |-> csv_cell(input, f[i])]

\* The literal commas of the format string between the placeholders.
RECURSIVE join_cells(_)
join_cells(cells) ==
    IF cells = <<>> THEN <<>>
    ELSE IF Len(cells) = 1 THEN cells[1].text
    ELSE cells[1].text \o <<",">> \o join_cells(Tail(cells))

\* prepare_csv: the row format!() returns.
prepare_csv(input) == join_cells(csv_cells_of(input))

\* The records handed to prepare_csv.
CsvInputs ==
    [kind : GooseLog, name : Strings, url : Strings, error : Strings,
     n : {0, 7}, b : BOOLEAN, some : BOOLEAN]

\* A record is about to be rendered; the logger is not running.
CsvInit ==
    /\ csv_input \in CsvInputs
    /\ csv_cells = <<>>
    /\ csv_row = <<>>
    /\ FormatIdle
    /\ SetupIdle
    /\ ControllerIdle
    /\ ClockIdle
    /\ RunIdle
    /\ configuration = Configured([s \in GooseLog |-> PathOf(s)],
                                  [s \in GooseLog |-> "Csv"])
    /\ pc = "format"
    /\ log_file = [s \in GooseLog |-> NoFile]
    /\ flushed = <<>>
    /\ channel = <<>>
    /\ senders = TRUE
    /\ sent = 0
    /\ received = <<>>
    /\ create_errors = {}
    /\ warnings = [p \in AllPaths |-> 0]
    /\ result = "running"

\* format_message in Csv format: the row is prepare_csv of the record.
PrepareCsv ==
    /\ pc = "format"
    /\ csv_cells = <<>>
    /\ csv_cells' = csv_cells_of(csv_input)
    /\ csv_row' = prepare_csv(csv_input)
    /\ pc' = "formatted"
    /\ UNCHANGED <<configuration, log_file, flushed, channel, senders, sent,
                   received, create_errors, warnings, result, csv_input>>
    /\ UNCHANGED <<format_vars, gaggle_vars,
                   setup_vars, controller_vars, clock_vars,
                   run_vars>>

CsvNext == PrepareCsv

SpecCsv == CsvInit /\ [][CsvNext]_vars

----------------------------------------------------------------------------
(* format_message in the Json, Raw and Pretty formats, and the text         *)
(* write_to_log_file hands to the writer.  Text is a sequence of characters *)
(* as above; a piece of text that holds no line break, comma or quote may   *)
(* be one element.                                                          *)

\* The struct a message of each GooseLog variant carries.
StructName(kind) ==
    CASE kind = "Debug" -> "GooseDebug"
      [] kind = "Error" -> "GooseErrorMetric"
      [] kind = "Request" -> "GooseRequestMetric"
      [] kind = "Task" -> "GooseTaskMetric"

\* The fields of the struct, in the order prepare_csv reads them.
struct_fields(kind) ==
    [i \in 1..Len(csv_format(kind)) |-> csv_format(kind)[i].field]

\* The keys of the object json!(message) builds: serde_json's map holds the
\* field names in sorted order.
json_keys(kind) ==
    CASE kind = "Debug" -> <<"body", "header", "request", "tag">>
      [] kind = "Error" ->
            <<"elapsed", "error", "final_url", "name", "raw", "redirected",
              "response_time", "status_code", "user">>
      [] kind = "Request" ->
            <<"coordinated_omission_elapsed", "elapsed", "error", "final_url",
              "name", "raw", "redirected", "response_time", "status_code",
              "success", "update", "user", "user_cadence">>
      [] kind = "Task" ->
            <<"elapsed", "name", "run_time", "success", "task_index",
              "taskset_index", "user">>

\* The texts joined with a separator between them.
RECURSIVE Join(_, _)
Join(texts, separator) ==
    IF texts = <<>> THEN <<>>
    ELSE IF Len(texts) = 1 THEN texts[1]
    ELSE texts[1] \o separator \o Join(Tail(texts), separator)

\* serde_json writes a string between double quotes, the double quote and
\* the line break escaped by a backslash.
escape_json(c) ==
    CASE c = "\"" -> <<"\\", "\"">>
      [] c = "\n" -> <<"\\", "n">>
      [] OTHER -> <<c>>

json_str(s) ==
    <<"\"">> \o Concat([i \in 1..Len(s) |-> escape_json(s[i])]) \o <<"\"">>

\* The JSON value of a field: a string, a number, true or false, an object
\* for the GooseRawRequest, null for an Option that is None.
json_value(input, field) ==
    CASE FieldType(field) = "string" -> json_str(FieldString(input, field))
      [] FieldType(field) \in {"bool", "number"} -> display(input, field)
      [] FieldType(field) = "raw" ->
            <<"{", "\"", "url", "\"", ":">>
                \o json_str(FieldString(input, field)) \o <<"}">>
      [] FieldType(field) = "option" /\ ~input.some -> <<"null">>
      [] FieldType(field) = "option" /\ input.some /\ field = "request" ->
            <<"{", "\"", "name", "\"", ":">>
                \o json_str(FieldString(input, field)) \o <<"}">>
      [] FieldType(field) = "option" /\ input.some /\ field # "request" ->
            json_str(FieldString(input, field))

\* json!(message).to_string(): the compact form, no white space between
\* the tokens.
to_json(input) ==
    LET keys == json_keys(input.kind)
    IN  <<"{">>
            \o Join([i \in 1..Len(keys) |->
                        <<"\"", keys[i], "\"", ":">>
                            \o json_value(input, keys[i])],
                    <<",">>)
            \o <<"}">>

\* Debug ({:?}) of any field: a String by debug_str, a number or bool as
\* Display, a struct or Option by its derived Debug.
debug_value(input, field) ==
    CASE FieldType(field) = "string" -> debug_str(FieldString(input, field))
      [] FieldType(field) \in {"bool", "number"} -> display(input, field)
      [] OTHER -> debug(input, field)

\* format!("{:?}", message): the derived Debug of the struct, on one line.
to_raw(input) ==
    LET f == struct_fields(input.kind)
    IN  <<StructName(input.kind), " { ">>
            \o Join([i \in 1..Len(f) |->
                        <<f[i], ": ">> \o debug_value(input, f[i])],
                    <<",", " ">>)
            \o <<" }">>

\* Pretty Debug ({:#?}) of a field: a struct or Some(..) opens a block with
\* one indented line per field; everything else is as in {:?}.
pretty_value(input, field) ==
    CASE FieldType(field) = "raw" ->
            <<"GooseRawRequest {", "\n", "        url: ">>
                \o debug_str(FieldString(input, field))
                \o <<",", "\n", "    }">>
      [] FieldType(field) = "option" /\ input.some /\ field = "request" ->
            <<"Some(", "\n", "        GooseRequestMetric {", "\n",
              "            name: ">>
                \o debug_str(FieldString(input, field))
                \o <<",", "\n", "        }", ",", "\n", "    )">>
      [] FieldType(field) = "option" /\ input.some /\ field # "request" ->
            <<"Some(", "\n", "        ">>
                \o debug_str(FieldString(input, field))
                \o <<",", "\n", "    )">>
      [] OTHER -> debug_value(input, field)

\* format!("{:#?}", message): one line per field between the line that
\* opens the struct and the line that closes it.
to_pretty(input) ==
    LET f == struct_fields(input.kind)
    IN  <<StructName(input.kind), " {", "\n">>
            \o Concat([i \in 1..Len(f) |->
                          <<"    ", f[i], ": ">> \o pretty_value(input, f[i])
                              \o <<",", "\n">>])
            \o <<"}">>

\* format_message, as text: the match on the configured format of the
\* message's type.
format_message_as(format, input) ==
    CASE format = "Json" -> to_json(input)
      [] format = "Raw" -> to_raw(input)
      [] format = "Pretty" -> to_pretty(input)
      [] format = "Csv" -> prepare_csv(input)

\* format!("{}\n", formatted_message): what write_to_log_file writes.
line_of(formatted_message) == formatted_message \o <<"\n">>

\* The records handed to format_message.
FormatInputs ==
    [kind : GooseLog, name : Strings, url : {<<"a">>}, error : Strings,
     n : {7}, b : BOOLEAN, some : BOOLEAN]

\* A message is about to be formatted and written; all four streams share
\* one format.
\* A buffer capacity scaled down to the records of the model: a line of
\* at least this many characters is larger than the buffer.
SmallCapacity == 8

FormatInit ==
    /\ csv_input \in FormatInputs
    /\ csv_cells = <<>>
    /\ csv_row = <<>>
    /\ FormatIdle
    /\ SetupIdle
    /\ ControllerIdle
    /\ ClockIdle
    /\ RunIdle
    /\ \E f \in GooseLogFormat :
          configuration = Configured([s \in GooseLog |-> PathOf(s)],
                                     [s \in GooseLog |-> f])
    /\ pc = "format"
    /\ \E small \in BOOLEAN :
          log_file =
             [s \in GooseLog |->
                open_log_file(configuration.log[s],
                              IF small THEN SmallCapacity
                              ELSE buffer_capacity(configuration, s),
                              TRUE)]
    /\ flushed = <<>>
    /\ channel = <<>>
    /\ senders = TRUE
    /\ sent = 0
    /\ received = <<>>
    /\ create_errors = {}
    /\ warnings = [p \in AllPaths |-> 0]
    /\ result = "running"

\* The receive loop calls format_message on the message.
FormatMessage ==
    /\ pc = "format"
    /\ formatted_text' =
          format_message_as(configuration.format[csv_input.kind], csv_input)
    /\ pc' = "write"
    /\ UNCHANGED <<configuration, log_file, flushed, channel, senders, sent,
                   received, create_errors, warnings, result>>
    /\ UNCHANGED <<csv_vars, file_text, accepted_text, parse_vars,
                   gaggle_vars, setup_vars, controller_vars, clock_vars,
                   run_vars>>

\* BufWriter::write(buf) returning Ok(n): a buf shorter than the capacity
\* is copied into the buffer whole (after the buffer is flushed if it
\* lacks the room); a buf of at least the capacity is passed on to the
\* write of the file, which may accept any non-empty part of it.
accepted_lengths(capacity, buf) ==
    IF Len(buf) >= capacity THEN 1..Len(buf) ELSE {Len(buf)}

\* write_to_log_file: the line is handed to one BufWriter::write, whose
\* Ok(n) is matched by Ok(_) and not looked at, or the write fails and
\* nothing is written.
WriteMessage ==
    /\ pc = "write"
    /\ \E outcome \in WriteOutcomes :
          /\ file_text' = IF outcome = "Ok"
                          THEN file_text \o line_of(formatted_text)
                          ELSE file_text
          /\ \E n \in accepted_lengths(log_file[csv_input.kind].capacity,
                                        line_of(formatted_text)) :
                accepted_text' =
                    IF outcome = "Ok"
                    THEN accepted_text
                            \o SubSeq(line_of(formatted_text), 1, n)
                    ELSE accepted_text
    /\ pc' = "written"
    /\ UNCHANGED <<configuration, log_file, flushed, channel, senders, sent,
                   received, create_errors, warnings, result>>
    /\ UNCHANGED <<csv_vars, formatted_text, parse_vars, gaggle_vars,
                   setup_vars,
                   controller_vars, clock_vars, run_vars>>

FormatNext == FormatMessage \/ WriteMessage

SpecFormat == FormatInit /\ [][FormatNext]_vars

----------------------------------------------------------------------------
(* setup_loggers.                                                          *)

\* get_value: the value of the first GooseValue that is not filtered out,
\* None if there is none.
RECURSIVE get_value(_)
get_value(values) ==
    IF values = <<>> THEN NoValue
    ELSE IF ~Head(values).filter /\ Head(values).value # NoValue
         THEN Head(values).value
         ELSE get_value(Tail(values))

\* One GooseValue of the vector handed to get_value.
GooseValue(value, filter) == [value |-> value, filter |-> filter]

\* unwrap_or_else(|| "".to_string()).
unwrap_or_empty(option) == IF option = NoValue THEN "" ELSE option[1]

\* Mutant of configured_log: the GooseDefault comes before the option.
configured_log_default_first(self, goose_defaults, s) ==
    unwrap_or_empty(get_value(
        <<GooseValue(goose_defaults.log[s], goose_defaults.log[s] = NoValue),
          GooseValue(Some(self.log[s]), self.log[s] = "")>>))

\* configure_loggers, the path of one log: the run time option if it is not
\* empty, otherwise the GooseDefault if it is set, otherwise "".
configured_log(self, goose_defaults, s) ==
    unwrap_or_empty(get_value(
        <<GooseValue(Some(self.log[s]), self.log[s] = ""),
          GooseValue(goose_defaults.log[s], goose_defaults.log[s] = NoValue)>>))

\* Mutant of configured_format: the GooseDefault comes before the option.
\* Mutant of configured_format: only the run time option is looked at.
configured_format_option_only(self, goose_defaults, s) == self.format[s]

\* Mutant of configured_format: the Manager flag is not looked at.
configured_format_on_manager(self, goose_defaults, s) ==
    get_value(
        <<GooseValue(self.format[s], self.format[s] = NoValue),
          GooseValue(goose_defaults.format[s],
                     goose_defaults.format[s] = NoValue),
          GooseValue(Some("Json"), FALSE)>>)

configured_format_default_first(self, goose_defaults, s) ==
    get_value(
        <<GooseValue(goose_defaults.format[s],
                     goose_defaults.format[s] = NoValue \/ self.manager),
          GooseValue(self.format[s], self.format[s] = NoValue),
          GooseValue(Some("Json"), self.manager)>>)

\* configure_loggers, the format of one log: the run time option if it is
\* set, otherwise the GooseDefault if it is set and this is no Manager,
\* otherwise Json if this is no Manager.
configured_format(self, goose_defaults, s) ==
    get_value(
        <<GooseValue(self.format[s], self.format[s] = NoValue),
          GooseValue(goose_defaults.format[s],
                     goose_defaults.format[s] = NoValue \/ self.manager),
          GooseValue(Some("Json"), self.manager)>>)

\* unwrap_or(false).
unwrap_or_false(option) == IF option = NoValue THEN FALSE ELSE option[1]

\* Mutant of configured_request_body: the call toggles request_body.
configured_request_body_flipped(self, goose_defaults) == ~self.request_body

\* configure_loggers, request_body: the run time option if it is set,
\* otherwise the GooseDefault if it is set and this is no Manager, otherwise
\* false.
configured_request_body(self, goose_defaults) ==
    unwrap_or_false(get_value(
        <<GooseValue(Some(self.request_body), ~self.request_body),
          GooseValue(goose_defaults.request_body,
                     goose_defaults.request_body = NoValue \/ self.manager)>>))

\* configure_loggers: the paths and the formats of the four logs, and
\* request_body, after it has run.
configure_loggers(self, goose_defaults) ==
    [self EXCEPT
        !.log = [s \in GooseLog |-> configured_log(self, goose_defaults, s)],
        !.format =
            [s \in GooseLog |-> configured_format(self, goose_defaults, s)],
        !.request_body = configured_request_body(self, goose_defaults)]

\* An Option<GooseLogFormat> as logger_main reads it.
format_of(option) == IF option = NoValue THEN "None" ELSE option[1]

\* `let configuration = self.clone()`: what logger_main reads of it.
clone(self) ==
    [log |-> self.log,
     format |-> [s \in GooseLog |-> format_of(self.format[s])],
     request_body |-> self.request_body,
     no_debug_body |-> self.no_debug_body]

\* Mutant of no_logger_enabled: one empty path is enough to start no logger.
some_logger_disabled(self) == \E s \in GooseLog : self.log[s] = ""

\* `self.debug_log.is_empty() && self.request_log.is_empty() &&
\* self.task_log.is_empty() && self.error_log.is_empty()`.
no_logger_enabled(self) == \A s \in GooseLog : self.log[s] = ""

\* The values a GooseDefault log path can have: not set, set to "" or set to
\* a path.
DefaultPaths(s) == {NoValue, Some(""), Some(PathOf(s))}

\* No format is set, by option or by default.
NoFormats == [s \in GooseLog |-> NoValue]

\* setup_loggers is about to be called on the configuration `options`, as
\* parsed from the run time options; the logger is not running.
SetupStart ==
    /\ setup_result = [handle |-> FALSE, tx |-> FALSE]
    /\ spawned = 0
    /\ configuration = clone(options)
    /\ pc = "setup"
    /\ log_file = [s \in GooseLog |-> NoFile]
    /\ flushed = <<>>
    /\ channel = <<>>
    /\ senders = FALSE
    /\ sent = 0
    /\ received = <<>>
    /\ create_errors = {}
    /\ warnings = [p \in AllPaths |-> 0]
    /\ result = "running"
    /\ OnlyLogger

\* The run time options and the defaults setup_loggers is called with: every
\* combination of the log paths, with no format and no body option set.
SetupInit ==
    /\ options \in [manager : BOOLEAN,
                    log : { l \in [GooseLog -> AllPaths] :
                              \A s \in GooseLog : l[s] \in {"", PathOf(s)} },
                    format : {NoFormats},
                    request_body : {FALSE},
                    no_debug_body : {FALSE}]
    /\ defaults \in [log : { d \in [GooseLog -> UNION { DefaultPaths(s) :
                                                         s \in GooseLog }] :
                               \A s \in GooseLog : d[s] \in DefaultPaths(s) },
                     format : {NoFormats},
                     request_body : {NoValue}]
    /\ SetupStart

\* The formats given by option and by default: each stream's apart.
OptionFormats == [GooseLog -> {NoValue, Some("Csv"), Some("Raw")}]

DefaultFormats == [GooseLog -> {NoValue, Some("Pretty")}]

\* The run time options and the defaults setup_loggers is called with: every
\* combination of the formats and of request_body, with the request log
\* enabled or no log at all.
ConfigureInit ==
    /\ options \in [manager : BOOLEAN,
                    log : { [s \in GooseLog |-> ""],
                            [s \in GooseLog |->
                               IF s = "Request" THEN PathOf(s) ELSE ""] },
                    format : OptionFormats,
                    request_body : BOOLEAN,
                    no_debug_body : {FALSE}]
    /\ defaults \in [log : {[s \in GooseLog |-> NoValue]},
                     format : DefaultFormats,
                     request_body : {NoValue, Some(FALSE), Some(TRUE)}]
    /\ SetupStart

\* setup_loggers on a Manager: returns (None, None) at once.
SetupManager ==
    /\ pc = "setup"
    /\ options.manager
    /\ setup_result' = [handle |-> FALSE, tx |-> FALSE]
    /\ pc' = "returned"
    /\ UNCHANGED <<configuration, log_file, flushed, channel, senders, sent,
                   received, create_errors, warnings, result>>
    /\ UNCHANGED <<csv_vars, format_vars, gaggle_vars,
                   options, defaults, spawned,
                   controller_vars, clock_vars, run_vars>>

\* setup_loggers otherwise: resolves the paths, returns (None, None) if no
\* logger is enabled, and else creates the channel, spawns logger_main on a
\* clone of the configuration and returns the handle and the Sender.
SetupLoggers ==
    /\ pc = "setup"
    /\ ~options.manager
    /\ LET self == configure_loggers(options, defaults)
       IN  /\ configuration' = clone(self)
           /\ IF no_logger_enabled(self)
              THEN /\ setup_result' = [handle |-> FALSE, tx |-> FALSE]
                   /\ pc' = "returned"
                   /\ UNCHANGED <<senders, spawned>>
              ELSE /\ setup_result' = [handle |-> TRUE, tx |-> TRUE]
                   /\ senders' = TRUE
                   /\ spawned' = spawned + 1
                   /\ pc' = "open"
    /\ UNCHANGED <<log_file, flushed, channel, sent, received, create_errors,
                   warnings, result>>
    /\ UNCHANGED <<csv_vars, format_vars, gaggle_vars, options, defaults,
                   controller_vars, clock_vars, run_vars>>

SetupNext == SetupManager \/ SetupLoggers

SpecSetup == SetupInit /\ [][SetupNext]_vars

SpecConfigure == ConfigureInit /\ [][SetupNext]_vars

\* ---------------------------------------------------------------------
\* configure_loggers on its own, called on any configuration, a Manager's
\* included, and called again: `options` is the &mut self of the calls.
\* ---------------------------------------------------------------------

\* No path is declared, or every path is.
DeclaredPaths ==
    { [s \in GooseLog |-> NoValue], [s \in GooseLog |-> Some(PathOf(s))] }

ReconfigureInit ==
    /\ options \in [manager : BOOLEAN,
                    log : { [s \in GooseLog |-> ""],
                            [s \in GooseLog |->
                               IF s = "Request" THEN PathOf(s) ELSE ""] },
                    format : OptionFormats,
                    request_body : BOOLEAN,
                    no_debug_body : {FALSE}]
    /\ defaults \in [log : DeclaredPaths,
                     format : DefaultFormats,
                     request_body : {NoValue, Some(FALSE), Some(TRUE)}]
    /\ setup_result = [handle |-> FALSE, tx |-> FALSE]
    /\ spawned = 0
    /\ configuration = clone(options)
    /\ pc = "configure"
    /\ log_file = [s \in GooseLog |-> NoFile]
    /\ flushed = <<>>
    /\ channel = <<>>
    /\ senders = FALSE
    /\ sent = 0
    /\ received = <<>>
    /\ create_errors = {}
    /\ warnings = [p \in AllPaths |-> 0]
    /\ result = "running"
    /\ OnlyLogger

\* self.configure_loggers(defaults), a first and a second time.
ConfigureLoggers ==
    /\ pc \in {"configure", "configured"}
    /\ options' = configure_loggers(options, defaults)
    /\ pc' = IF pc = "configure" THEN "configured" ELSE "configured again"
    /\ UNCHANGED <<configuration, log_file, flushed, channel, senders, sent,
                   received, create_errors, warnings, result>>
    /\ UNCHANGED <<csv_vars, format_vars, gaggle_vars, defaults,
                   setup_result, spawned, controller_vars, clock_vars,
                   run_vars>>

SpecReconfigure == ReconfigureInit /\ [][ConfigureLoggers]_vars

\* ---------------------------------------------------------------------
\* setup_loggers followed by the logger thread it has spawned.
\* ---------------------------------------------------------------------

\* No format is given, or the Csv format for the request log only.
ThreadFormats ==
    { NoFormats,
      [s \in GooseLog |-> IF s = "Request" THEN Some("Csv") ELSE NoValue] }

\* The request log is enabled by its option or not at all; the debug log
\* is declared as a default or not at all.
ThreadInit ==
    /\ options \in [manager : BOOLEAN,
                    log : { [s \in GooseLog |-> ""],
                            [s \in GooseLog |->
                               IF s = "Request" THEN PathOf(s) ELSE ""] },
                    format : ThreadFormats,
                    request_body : {FALSE},
                    no_debug_body : {FALSE}]
    /\ defaults \in [log : { [s \in GooseLog |-> NoValue],
                             [s \in GooseLog |->
                                IF s = "Debug" THEN Some(PathOf(s))
                                ELSE NoValue] },
                     format : { NoFormats,
                                [s \in GooseLog |-> Some("Pretty")] },
                     request_body : {NoValue}]
    /\ SetupStart

ThreadNext == SetupNext \/ Next

SpecThread == ThreadInit /\ [][ThreadNext]_vars

----------------------------------------------------------------------------
(* The Attack Controller on the clock: hatching, the run-time deadline and *)
(* the throttle.  The users are not told apart: any hatched user may issue *)
(* a request.  One tick of the clock is the filler's period, 1s / rps.     *)

\* logger_main is not looked at.
LoggerIdle ==
    /\ configuration = Configured([s \in GooseLog |-> PathOf(s)],
                                  [s \in GooseLog |-> "Json"])
    /\ pc = "idle"
    /\ log_file = [s \in GooseLog |-> NoFile]
    /\ flushed = <<>>
    /\ channel = <<>>
    /\ senders = TRUE
    /\ sent = 0
    /\ received = <<>>
    /\ create_errors = {}
    /\ warnings = [p \in AllPaths |-> 0]
    /\ result = "running"

\* One second, in ticks.
Second(a) == a.throttle_requests

\* run_time, in ticks.
RunTicks(a) == a.run_time * Second(a)

\* `now() - t_start >= run_time`: the global deadline has passed.
deadline_passed == now - t_start >= RunTicks(attack)

\* The pause between two hatches, 1s / hatch_rate, in ticks.
HatchInterval(a) == Second(a) \div a.hatch_rate

\* The controller sleeps between hatches on the monotonic clock: user k
\* (from 0) is due at t_start + k / hatch_rate.
hatch_due == now >= t_start + hatched * HatchInterval(attack)

\* Mutant of refill: the filler adds two tokens per period.
refill_two(level, capacity) ==
    IF level + 2 <= capacity THEN level + 2 ELSE capacity

\* The filler adds one token per period, never past capacity.
refill(level, capacity) == IF level < capacity THEN level + 1 ELSE level

\* Mutant of reported_duration: the duration is taken when the report is
\* emitted.
reported_duration_at_report(at_stop, at_report) == at_report

\* The duration the run reports is the time from t_start to the moment the
\* controller left Running.
reported_duration(at_stop, at_report) == at_stop

\* One instant of the clock: the tokens in the channel when it began and the
\* requests issued during it.
Instant(level) == [tokens |-> level, requests |-> 0]

\* The last second of the clock: the instants of the window [now - 1s, now].
last_second(window, a) ==
    IF Len(window) > Second(a) + 1 THEN Tail(window) ELSE window

\* The configurations of a timed run: the throttle is enabled, and
\* hatch_rate is throttle_requests, as in tests/defaults.rs.
ClockAttacks ==
    { a \in [users : 1..MaxUsers, hatch_rate : 1..MaxThrottle,
             run_time : 1..MaxRunTime, throttle_requests : 1..MaxThrottle,
             no_reset_metrics : {TRUE}, workers : {1}] :
        a.hatch_rate = a.throttle_requests }

\* The controller is in Starting: the throttle channel is full.
ClockInit ==
    /\ attack \in ClockAttacks
    /\ phase = "Starting"
    /\ hatched = 0
    /\ stop_reason = "none"
    /\ metrics = NoMetrics
    /\ now = 0
    /\ t_start = 0
    /\ tokens = attack.throttle_requests
    /\ issued = [total |-> 0,
                 window |-> <<Instant(attack.throttle_requests)>>]
    /\ LoggerIdle
    /\ CsvIdle
    /\ FormatIdle
    /\ SetupIdle
    /\ RunIdle

\* Starting -> Hatching: sets t_start.
ClockBeginHatching ==
    /\ phase = "Starting"
    /\ phase' = "Hatching"
    /\ t_start' = now
    /\ UNCHANGED <<attack, hatched, stop_reason, metrics, now, tokens, issued>>
    /\ UNCHANGED <<logger_vars, csv_vars, format_vars, gaggle_vars,
                   setup_vars, run_vars>>

\* The controller hatches the next user when it is due.
ClockHatchUser ==
    /\ phase = "Hatching"
    /\ hatched < attack.users
    /\ hatch_due
    /\ hatched' = hatched + 1
    /\ UNCHANGED <<attack, phase, stop_reason, metrics, clock_vars>>
    /\ UNCHANGED <<logger_vars, csv_vars, format_vars, gaggle_vars,
                   setup_vars, run_vars>>

\* Hatching -> Running: all users have been hatched.
ClockAllHatched ==
    /\ phase = "Hatching"
    /\ hatched = attack.users
    /\ phase' = "Running"
    /\ UNCHANGED <<attack, hatched, stop_reason, metrics, clock_vars>>
    /\ UNCHANGED <<logger_vars, csv_vars, format_vars, gaggle_vars,
                   setup_vars, run_vars>>

\* Running -> Stopping, for the given reason.
leave_running(reason) ==
    /\ phase' = "Stopping"
    /\ stop_reason' = reason
    /\ metrics' = [metrics EXCEPT !.duration = now - t_start]
    /\ UNCHANGED <<attack, hatched, clock_vars>>
    /\ UNCHANGED <<logger_vars, csv_vars, format_vars, gaggle_vars,
                   setup_vars, run_vars>>

\* Running -> Stopping: now() - t_start >= run_time.
ClockDeadline ==
    /\ phase = "Running"
    /\ deadline_passed
    /\ leave_running("deadline")

\* Running -> Stopping: a signal is received.
ClockSignal ==
    /\ phase = "Running"
    /\ ~deadline_passed
    /\ leave_running("signal")

\* Stopping -> Stopped: the users are cancelled and joined, and the report
\* is emitted.
ClockStop ==
    /\ phase = "Stopping"
    /\ phase' = "Stopped"
    /\ metrics' =
          [users |-> hatched,
           duration |-> reported_duration(metrics.duration, now - t_start)]
    /\ UNCHANGED <<attack, hatched, stop_reason, clock_vars>>
    /\ UNCHANGED <<logger_vars, csv_vars, format_vars, gaggle_vars,
                   setup_vars, run_vars>>

\* A user acquires a token and issues an HTTP request: its loop runs while
\* the global deadline has not passed and no cancellation was requested.
IssueRequest ==
    /\ phase \in {"Hatching", "Running"}
    /\ hatched > 0
    /\ ~deadline_passed
    /\ tokens > 0
    /\ tokens' = tokens - 1
    /\ issued' = [issued EXCEPT !.total = @ + 1,
                                !.window[Len(issued.window)].requests = @ + 1]
    /\ UNCHANGED <<controller_vars, now, t_start>>
    /\ UNCHANGED <<logger_vars, csv_vars, format_vars, gaggle_vars,
                   setup_vars, run_vars>>

\* The clock may advance when the controller has nothing due: no hatch and
\* no deadline, and the shutdown takes at most MaxShutdownTicks.
time_may_pass ==
    CASE phase = "Hatching" -> hatched < attack.users /\ ~hatch_due
      [] phase = "Running" -> ~deadline_passed
      [] phase = "Stopping" ->
            now - t_start - metrics.duration < MaxShutdownTicks
      [] OTHER -> FALSE

\* One period of the filler passes: it refills one token.
Tick ==
    /\ time_may_pass
    /\ now' = now + 1
    /\ tokens' = refill(tokens, attack.throttle_requests)
    /\ issued' = [issued EXCEPT
                     !.window = last_second(Append(@, Instant(tokens')),
                                            attack)]
    /\ UNCHANGED <<controller_vars, t_start>>
    /\ UNCHANGED <<logger_vars, csv_vars, format_vars, gaggle_vars,
                   setup_vars, run_vars>>

ClockNext ==
    \/ ClockBeginHatching
    \/ ClockHatchUser
    \/ ClockAllHatched
    \/ ClockDeadline
    \/ ClockSignal
    \/ ClockStop
    \/ IssueRequest
    \/ Tick

SpecClock == ClockInit /\ [][ClockNext]_vars

----------------------------------------------------------------------------
(* A whole run without the clock: the Attack Controller, its GooseUsers,   *)
(* the Metrics Aggregator and logger_main.  The deadline and the end of    *)
(* the grace period are events that may happen at any moment they are      *)
(* waited for.                                                             *)

\* The largest number of users of a run.
MaxAttackUsers == 2

\* The largest number of HTTP requests of a run.
MaxRequests == 1

\* The number of Worker processes of the gaggle tests.
EXPECT_WORKERS == 2

\* What a run leaves alone.
outside_attack == <<csv_vars, format_vars, gaggle_vars, clock_vars>>

\* The number of users: the run time option if it is set, otherwise the
\* GooseDefault.
configured_users(self, goose_defaults) ==
    get_value(<<GooseValue(self.users, self.users = NoValue),
                GooseValue(goose_defaults.users,
                           goose_defaults.users = NoValue)>>)[1]

\* The Manager partitions the users round-robin by user id.
worker_of(u, workers) == ((u - 1) % workers) + 1

\* The users among the first n that run on Worker w.
worker_users(w, n, workers) ==
    Cardinality({ u \in 1..n : worker_of(u, workers) = w })

\* The users the processes 1..w report, summed.
RECURSIVE total_users(_, _, _)
total_users(w, n, workers) ==
    IF w = 0 THEN 0
    ELSE worker_users(w, n, workers) + total_users(w - 1, n, workers)

\* Hatching -> Running: the aggregator is zeroed unless no_reset_metrics.
reset_metrics(a, counters) ==
    IF a.no_reset_metrics THEN counters
    ELSE [e \in Endpoints |-> NoRequests]

\* Mutant of record_request: a failure is counted as a request only.
record_request_no_fail(counters, success) ==
    [counters EXCEPT !.counter = @ + 1,
                     !.success_count = IF success THEN @ + 1 ELSE @]

\* The aggregator on one Request event.
record_request(counters, success) ==
    [counters EXCEPT !.counter = @ + 1,
                     !.success_count = IF success THEN @ + 1 ELSE @,
                     !.fail_count = IF success THEN @ ELSE @ + 1]

\* The log events a user emits for one request: a Request event, and an
\* Error event if the request failed.
log_events(success) ==
    IF success THEN <<"Request">> ELSE <<"Request", "Error">>

\* The users that have been hatched.
Hatched == 1..hatched

\* The user's task awaits the response of its request.
InFlight(u) == user_state[u] \in Endpoints

\* The users' loop condition: the deadline has not passed and no
\* cancellation was requested.
may_loop == phase \in {"Hatching", "Running"}

\* The sum of f over S.
RECURSIVE SumOver(_, _)
SumOver(f, S) ==
    IF S = {} THEN 0
    ELSE LET x == CHOOSE y \in S : TRUE
         IN  f[x] + SumOver(f, S \ {x})

\* The HTTP requests made so far.
RequestsMade == SumOver([e \in Endpoints |-> hits[e].seen], Endpoints)

\* How the number of users is configured: by default only, by option only,
\* or by an option that overrides the default.
UsersChoices ==
    {[option |-> NoValue, default |-> Some(1)],
     [option |-> Some(1), default |-> NoValue],
     [option |-> Some(MaxAttackUsers), default |-> Some(1)]}

\* The runs: a gaggle sets no_reset_metrics, as the gaggle tests do.
Attacks ==
    { a \in [users : {0}, hatch_rate : {1}, run_time : {1},
             throttle_requests : {0}, no_reset_metrics : BOOLEAN,
             workers : {1, EXPECT_WORKERS}] :
        a.workers > 1 => a.no_reset_metrics }

\* The run time options and defaults of a run: only the request log is
\* enabled, in the Csv format.
AttackInit ==
    /\ \E c \in UsersChoices :
          /\ options = [manager |-> FALSE,
                        log |-> [s \in GooseLog |->
                                   IF s = "Request" THEN PathOf(s) ELSE ""],
                        format |-> [s \in GooseLog |-> Some("Csv")],
                        request_body |-> FALSE,
                        no_debug_body |-> FALSE,
                        users |-> c.option]
          /\ defaults = [log |-> [s \in GooseLog |-> NoValue],
                         format |-> NoFormats,
                         request_body |-> NoValue,
                         users |-> c.default]
    /\ setup_result = [handle |-> FALSE, tx |-> FALSE]
    /\ spawned = 0
    /\ configuration = clone(options)
    /\ pc = "setup"
    /\ log_file = [s \in GooseLog |-> NoFile]
    /\ flushed = <<>>
    /\ channel = <<>>
    /\ senders = FALSE
    /\ sent = 0
    /\ received = <<>>
    /\ create_errors = {}
    /\ warnings = [p \in AllPaths |-> 0]
    /\ result = "running"
    /\ attack \in Attacks
    /\ phase = "Init"
    /\ hatched = 0
    /\ stop_reason = "none"
    /\ metrics = NoMetrics
    /\ CsvIdle
    /\ FormatIdle
    /\ ClockIdle
    /\ RunIdle

\* Init -> Starting: the configuration is finalised (options over
\* defaults) and setup_loggers spawns the logger.
StartAttack ==
    /\ phase = "Init"
    /\ phase' = "Starting"
    /\ attack' = [attack EXCEPT !.users = configured_users(options, defaults)]
    /\ user_state' = [u \in 1..attack'.users |-> "unhatched"]
    /\ LET self == configure_loggers(options, defaults)
       IN  /\ configuration' = clone(self)
           /\ ~no_logger_enabled(self)
           /\ setup_result' = [handle |-> TRUE, tx |-> TRUE]
           /\ senders' = TRUE
           /\ spawned' = spawned + 1
           /\ pc' = "open"
    /\ UNCHANGED <<log_file, flushed, channel, sent, received, create_errors,
                   warnings, result, options, defaults, hatched, stop_reason,
                   metrics, hits, aggregator, metric_channel, log_senders,
                   shutdown, abandoned, outside_attack>>

\* Starting -> Hatching.
BeginHatching ==
    /\ phase = "Starting"
    /\ phase' = "Hatching"
    /\ UNCHANGED <<logger_vars, setup_vars, attack, hatched, stop_reason,
                   metrics, run_vars, outside_attack>>

\* Hatching: the next user is spawned.
HatchUser ==
    /\ phase = "Hatching"
    /\ hatched < attack.users
    /\ hatched' = hatched + 1
    /\ user_state' = [user_state EXCEPT ![hatched + 1] = "idle"]
    /\ UNCHANGED <<logger_vars, setup_vars, attack, phase, stop_reason,
                   metrics, hits, aggregator, metric_channel, log_senders,
                   shutdown, abandoned, outside_attack>>

\* Mutant of all_hatched: one hatched user is enough.
any_hatched == hatched >= 1

\* All `users` have been hatched.
all_hatched == hatched = attack.users

\* Hatching -> Running: when all users have been hatched.
AllHatched ==
    /\ phase = "Hatching"
    /\ all_hatched
    /\ phase' = "Running"
    /\ aggregator' = reset_metrics(attack, aggregator)
    /\ UNCHANGED <<logger_vars, setup_vars, attack, hatched, stop_reason,
                   metrics, user_state, hits, metric_channel, log_senders,
                   shutdown, abandoned, outside_attack>>

\* Running -> Stopping: the deadline has passed.
Deadline ==
    /\ phase = "Running"
    /\ phase' = "Stopping"
    /\ stop_reason' = "deadline"
    /\ shutdown' = "cancel"
    /\ UNCHANGED <<logger_vars, setup_vars, attack, hatched, metrics,
                   user_state, hits, aggregator, metric_channel, log_senders,
                   abandoned, outside_attack>>

\* The steps of Stopping -> Stopped, in order.
shutdown_order ==
    <<"cancel", "join", "send_none", "join_logger", "finalise", "report",
      "done">>

\* The step that follows a step of the shutdown.
step_after(step) ==
    LET i == CHOOSE j \in 1..Len(shutdown_order) : shutdown_order[j] = step
    IN  shutdown_order[i + 1]

\* Stopping, first step: cancellation is signalled to the users.
CancelUsers ==
    /\ shutdown = "cancel"
    /\ shutdown' = step_after(shutdown)
    /\ UNCHANGED <<logger_vars, setup_vars, controller_vars, user_state, hits,
                   aggregator, metric_channel, log_senders, abandoned,
                   outside_attack>>

\* The users are awaited: every user task has exited.
JoinUsers ==
    /\ shutdown = "join"
    /\ \A u \in Hatched : user_state[u] = "exited"
    /\ shutdown' = step_after(shutdown)
    /\ UNCHANGED <<logger_vars, setup_vars, controller_vars, user_state, hits,
                   aggregator, metric_channel, log_senders, abandoned,
                   outside_attack>>

\* The grace period ends first: the users still running are abandoned.
GraceExpires ==
    /\ shutdown = "join"
    /\ \E u \in Hatched : user_state[u] # "exited"
    /\ abandoned' = { u \in Hatched : user_state[u] # "exited" }
    /\ shutdown' = step_after(shutdown)
    /\ UNCHANGED <<logger_vars, setup_vars, controller_vars, user_state, hits,
                   aggregator, metric_channel, log_senders, outside_attack>>

\* The controller sends None on the log channel.
SendNoneToLogger ==
    /\ shutdown = "send_none"
    /\ shutdown' = step_after(shutdown)
    /\ IF pc # "done"
       THEN /\ channel' = Append(channel, None)
            /\ sent' = sent + 1
            /\ log_senders' = Append(log_senders, 0)
       ELSE UNCHANGED <<channel, sent, log_senders>>
    /\ UNCHANGED <<configuration, pc, log_file, flushed, senders, received,
                   create_errors, warnings, result, setup_vars,
                   controller_vars, user_state, hits, aggregator,
                   metric_channel, abandoned, outside_attack>>

\* The logger thread is awaited: logger_main has returned.
JoinLogger ==
    /\ shutdown = "join_logger"
    /\ pc = "done"
    /\ shutdown' = step_after(shutdown)
    /\ UNCHANGED <<logger_vars, setup_vars, controller_vars, user_state, hits,
                   aggregator, metric_channel, log_senders, abandoned,
                   outside_attack>>

\* The aggregator is awaited: it has drained its channel.
FinaliseAggregator ==
    /\ shutdown = "finalise"
    /\ metric_channel = <<>>
    /\ shutdown' = step_after(shutdown)
    /\ UNCHANGED <<logger_vars, setup_vars, controller_vars, user_state, hits,
                   aggregator, metric_channel, log_senders, abandoned,
                   outside_attack>>

\* Stopping -> Stopped: the report is emitted; a Manager sums the users of
\* its Workers.
EmitReport ==
    /\ shutdown = "report"
    /\ shutdown' = step_after(shutdown)
    /\ phase' = "Stopped"
    /\ metrics' = [metrics EXCEPT
                      !.users = total_users(attack.workers, hatched,
                                            attack.workers)]
    /\ UNCHANGED <<logger_vars, setup_vars, attack, hatched, stop_reason,
                   user_state, hits, aggregator, metric_channel, log_senders,
                   abandoned, outside_attack>>

\* The aggregator no longer takes events: the report is being emitted.
finalised == shutdown \in {"report", "done"}

\* The users are assigned the task sets round-robin: Index, whose task gets
\* INDEX_PATH, and About, whose task gets ABOUT_PATH.
endpoint_of(u) == IF u % 2 = 1 THEN "/" ELSE "/about.html"

\* A user runs the task of its task set and makes its HTTP request: the
\* server sees it.
UserBegin(u) ==
    /\ user_state[u] = "idle"
    /\ may_loop
    /\ RequestsMade < MaxRequests
    /\ user_state' = [user_state EXCEPT ![u] = endpoint_of(u)]
    /\ hits' = [hits EXCEPT ![endpoint_of(u)].seen = @ + 1]
    /\ UNCHANGED <<logger_vars, setup_vars, controller_vars, aggregator,
                   metric_channel, log_senders, shutdown, abandoned,
                   outside_attack>>

\* The events as sent on the log channel, numbered from `from`.
log_messages(variants, from) ==
    [i \in 1..Len(variants) |-> [variant |-> variants[i], id |-> from + i]]

\* The response arrives: the user emits the Request metric and the log
\* events.  A send on the log channel fails once logger_main has returned,
\* and the metric is discarded once the aggregator was finalised.
UserFinish(u) ==
    /\ InFlight(u)
    /\ \E success \in BOOLEAN :
          /\ metric_channel' =
                IF finalised THEN metric_channel
                ELSE Append(metric_channel,
                            [name |-> user_state[u], success |-> success])
          /\ IF pc # "done"
             THEN LET variants == log_events(success)
                  IN  /\ channel' = channel \o log_messages(variants, sent)
                      /\ sent' = sent + Len(variants)
                      /\ log_senders' =
                            log_senders \o [i \in 1..Len(variants) |-> u]
             ELSE UNCHANGED <<channel, sent, log_senders>>
          /\ hits' = [hits EXCEPT ![user_state[u]].failed =
                                      IF success THEN @ ELSE @ + 1]
    /\ user_state' = [user_state EXCEPT ![u] = "idle"]
    /\ UNCHANGED <<configuration, pc, log_file, flushed, senders, received,
                   create_errors, warnings, result, setup_vars,
                   controller_vars, aggregator, shutdown, abandoned,
                   outside_attack>>

\* The user's loop ends and its task exits.
UserExit(u) ==
    /\ user_state[u] = "idle"
    /\ ~may_loop
    /\ user_state' = [user_state EXCEPT ![u] = "exited"]
    /\ UNCHANGED <<logger_vars, setup_vars, controller_vars, hits, aggregator,
                   metric_channel, log_senders, shutdown, abandoned,
                   outside_attack>>

\* The aggregator consumes one metric event.
Aggregate ==
    /\ metric_channel # <<>>
    /\ ~finalised
    /\ LET event == Head(metric_channel)
       IN  aggregator' = [aggregator EXCEPT ![event.name] =
                             record_request(@, event.success)]
    /\ metric_channel' = Tail(metric_channel)
    /\ UNCHANGED <<logger_vars, setup_vars, controller_vars, user_state, hits,
                   log_senders, shutdown, abandoned, outside_attack>>

\* The steps of the controller.
ControllerStep ==
    \/ StartAttack
    \/ BeginHatching
    \/ HatchUser
    \/ AllHatched
    \/ CancelUsers
    \/ JoinUsers
    \/ GraceExpires
    \/ SendNoneToLogger
    \/ JoinLogger
    \/ FinaliseAggregator
    \/ EmitReport

\* The steps of logger_main in a run.
LoggerStep == OpenLogs \/ Receive \/ FlushLogs

AttackNext ==
    \/ ControllerStep
    \/ Deadline
    \/ \E u \in DOMAIN user_state : UserBegin(u)
    \/ \E u \in DOMAIN user_state : UserFinish(u)
    \/ \E u \in DOMAIN user_state : UserExit(u)
    \/ Aggregate
    \/ LoggerStep

SpecAttack == AttackInit /\ [][AttackNext]_vars

\* The scheduler runs every task that can take a step, and every HTTP
\* request ends (with a response or with a timeout).
AttackFairness ==
    /\ WF_vars(ControllerStep)
    /\ WF_vars(LoggerStep)
    /\ WF_vars(Aggregate)
    /\ \A u \in 1..MaxAttackUsers :
          WF_vars(u \in DOMAIN user_state /\ (UserFinish(u) \/ UserExit(u)))

\* A standalone run of one user, configured by default.
OneUserInit ==
    /\ AttackInit
    /\ options.users = NoValue
    /\ attack.no_reset_metrics
    /\ attack.workers = 1

FairSpecAttack == OneUserInit /\ [][AttackNext]_vars /\ AttackFairness

----------------------------------------------------------------------------
(* GooseLogFormat::from_str.  A string is a sequence of characters.        *)

\* The upper-case form of each letter that occurs in the inputs.
upper == [c |-> "C", s |-> "S", v |-> "V", j |-> "J", o |-> "O", n |-> "N",
          r |-> "R", a |-> "A", w |-> "W", p |-> "P", e |-> "E", t |-> "T",
          y |-> "Y", x |-> "X", m |-> "M", l |-> "L"]

\* Folding one character to lower case; a character that is no upper-case
\* letter is left alone.
to_lowercase(char) ==
    IF \E lower \in DOMAIN upper : upper[lower] = char
    THEN CHOOSE lower \in DOMAIN upper : upper[lower] = char
    ELSE char

\* Mutant of matches: the pattern without the (?i) flag.
matches_case_sensitive(alternatives, str) == str \in alternatives

\* The pattern without its anchors: some part of the string is one of the
\* alternatives.
matches_unanchored(alternatives, str) ==
    \E first \in 1..(Len(str) + 1) : \E last \in 0..Len(str) :
        [i \in 1..(last - first + 1) |->
            to_lowercase(str[first + i - 1])] \in alternatives

\* (?i)^(a|b)$ : the whole string equals one of the alternatives, letter
\* case ignored.
matches(alternatives, str) ==
    [i \in DOMAIN str |-> to_lowercase(str[i])] \in alternatives

Ok(value) == [ok |-> TRUE, value |-> value]

\* Err(GooseError::InvalidOption { value: s.to_string(), .. }): the error
\* carries the string that was given.
Err(s) == [ok |-> FALSE, value |-> "InvalidOption", invalid |-> s]

\* The four patterns of the RegexSet, tried in this order.
from_str(str) ==
    IF matches({<<"c", "s", "v">>}, str) THEN Ok("Csv")
    ELSE IF matches({<<"j", "s", "o", "n">>, <<"j", "s", "n">>}, str)
         THEN Ok("Json")
    ELSE IF matches({<<"r", "a", "w">>}, str) THEN Ok("Raw")
    ELSE IF matches({<<"p", "r", "e", "t", "t", "y">>}, str)
         THEN Ok("Pretty")
    ELSE Err(str)

\* format!("{:?}", format): the name of the variant, by #[derive(Debug)].
debug_name(format) ==
    CASE format = "Csv" -> <<"C", "s", "v">>
      [] format = "Json" -> <<"J", "s", "o", "n">>
      [] format = "Raw" -> <<"R", "a", "w">>
      [] format = "Pretty" -> <<"P", "r", "e", "t", "t", "y">>

\* The strings that differ from str in letter case only.
CaseVariants(str) ==
    { [i \in DOMAIN str |-> IF i \in raised
                             THEN upper[to_lowercase(str[i])]
                             ELSE to_lowercase(str[i])] :
        raised \in SUBSET DOMAIN str }

\* Strings that are no name of a format: the synonym of Json, a truncated
\* and an extended name, another word, the empty string.
OtherStrings ==
    CaseVariants(<<"j", "s", "n">>)
        \cup {<<"c", "s">>, <<"c", "s", "v", "x">>, <<"x", "m", "l">>,
              <<"x", "r", "a", "w">>, <<>>}

FromStrInputs ==
    UNION { CaseVariants(debug_name(format)) : format \in GooseLogFormat }
        \cup OtherStrings

FromStrInit ==
    /\ format_str \in FromStrInputs
    /\ format_parsed = <<>>
    /\ formatted_text = <<>>
    /\ file_text = <<>>
    /\ accepted_text = <<>>
    /\ LoggerIdle
    /\ CsvIdle
    /\ SetupIdle
    /\ ControllerIdle
    /\ ClockIdle
    /\ RunIdle

FromStr ==
    /\ format_parsed = <<>>
    /\ format_parsed' = <<from_str(format_str)>>
    /\ UNCHANGED <<logger_vars, csv_vars, formatted_text, file_text,
                   accepted_text, format_str, gaggle_vars, setup_vars,
                   controller_vars, clock_vars, run_vars>>

SpecFromStr == FromStrInit /\ [][FromStr]_vars

----------------------------------------------------------------------------
(* The Gaggle Coordinator: one manager and EXPECT_WORKERS workers.  The    *)
(* workers' own pipelines are reduced to what the manager's counters and   *)
(* the workers' request logs depend on: a request adds one metric to the   *)
(* worker's next batch and one record to its request log, unless the write *)
(* of the record fails.                                                    *)

\* Number of users the manager partitions.
MaxGaggleUsers == 3

\* Number of requests the workers issue in one run.
MaxGaggleRequests == 2

\* A registered task set with one task.
TaskSet(name, weight) ==
    [name |-> name, weight |-> weight, tasks |-> <<"task">>]

\* The task sets of the gaggle test, the same with the first one renamed,
\* and the same with another weight.
IndexAbout == <<TaskSet("Index", 1), TaskSet("About", 1)>>

FooIndexAbout == <<TaskSet("FooIndex", 1), TaskSet("About", 1)>>

WeightedIndexAbout == <<TaskSet("Index", 2), TaskSet("About", 1)>>

\* The fingerprint of the task-set shape: names, weights and task counts.
fingerprint(task_sets) ==
    [i \in DOMAIN task_sets |->
        <<task_sets[i].name, task_sets[i].weight, Len(task_sets[i].tasks)>>]

\* Mutant of accepts: the fingerprint is not looked at.
accepts_any(self, handshake) == TRUE

\* The manager accepts a handshake whose fingerprint is its own, and any
\* handshake if no_hash_check is set.
accepts(self, handshake) ==
    handshake = fingerprint(self.task_sets) \/ self.no_hash_check

\* Mutant of user_range: every worker is handed every user.
user_range_all(w, n, expect_workers) == 1..n

\* The users of worker w in the Start frame: round-robin by user id.
user_range(w, n, expect_workers) ==
    { u \in 1..n : worker_of(u, expect_workers) = w }

GaggleWorkers == 1..EXPECT_WORKERS

NewWorker(task_sets) ==
    [state |-> "connecting", task_sets |-> task_sets, users |-> {},
     requests |-> 0, records |-> 0, pending |-> 0, dropped_metrics |-> 0]

GaggleInit ==
    /\ \E task_sets \in {IndexAbout, FooIndexAbout}, no_hash_check \in BOOLEAN :
          gaggle_manager = [state |-> "waiting", task_sets |-> task_sets,
                            no_hash_check |-> no_hash_check,
                            expect_workers |-> EXPECT_WORKERS,
                            users |-> MaxGaggleUsers,
                            counter |-> 0, lost |-> {}]
    /\ gaggle_workers \in
          [GaggleWorkers ->
              {NewWorker(IndexAbout), NewWorker(WeightedIndexAbout)}]
    /\ inbox = <<>>
    /\ LoggerIdle
    /\ CsvIdle
    /\ FormatIdle
    /\ SetupIdle
    /\ ControllerIdle
    /\ ClockIdle
    /\ UsersIdle

\* Everything but the gaggle.
outside_gaggle == <<logger_vars, csv_vars, format_vars, setup_vars,
                    controller_vars, clock_vars, run_vars>>

\* Worker w connects and sends its handshake.
Handshake(w) ==
    /\ gaggle_workers[w].state = "connecting"
    /\ gaggle_workers' = [gaggle_workers EXCEPT ![w].state = "handshake"]
    /\ UNCHANGED <<gaggle_manager, inbox, outside_gaggle>>

\* The manager reads the handshake of worker w; a rejected worker exits
\* with code 1.
CheckHandshake(w) ==
    /\ gaggle_manager.state = "waiting"
    /\ gaggle_workers[w].state = "handshake"
    /\ gaggle_workers' =
          [gaggle_workers EXCEPT ![w].state =
              IF accepts(gaggle_manager,
                         fingerprint(gaggle_workers[w].task_sets))
              THEN "accepted"
              ELSE "exit 1"]
    /\ UNCHANGED <<gaggle_manager, inbox, outside_gaggle>>

Accepted == { w \in GaggleWorkers : gaggle_workers[w].state = "accepted" }

\* expect_workers workers are accepted: the manager broadcasts Start with
\* the partition of the users.
BroadcastStart ==
    /\ gaggle_manager.state = "waiting"
    /\ Cardinality(Accepted) = gaggle_manager.expect_workers
    /\ gaggle_manager' = [gaggle_manager EXCEPT !.state = "running"]
    /\ gaggle_workers' =
          [w \in GaggleWorkers |->
              [gaggle_workers[w] EXCEPT
                  !.state = "running",
                  !.users = user_range(w, gaggle_manager.users,
                                       gaggle_manager.expect_workers)]]
    /\ UNCHANGED <<inbox, outside_gaggle>>

GaggleRequests ==
    SumOver([w \in GaggleWorkers |-> gaggle_workers[w].requests],
            GaggleWorkers)

\* A user of worker w finishes a request: a metric for the next batch,
\* which the user drops and counts if the metric channel is full, and a
\* record for the request log, which is lost if its write fails.
WorkerRequest(w) ==
    /\ gaggle_workers[w].state = "running"
    /\ gaggle_workers[w].users # {}
    /\ GaggleRequests < MaxGaggleRequests
    /\ \E outcome \in WriteOutcomes, full \in BOOLEAN :
          gaggle_workers' =
              [gaggle_workers EXCEPT
                  ![w].requests = @ + 1,
                  ![w].pending = IF full THEN @ ELSE @ + 1,
                  ![w].dropped_metrics = IF full THEN @ + 1 ELSE @,
                  ![w].records = IF outcome = "Ok" THEN @ + 1 ELSE @]
    /\ UNCHANGED <<gaggle_manager, inbox, outside_gaggle>>

MetricsBatch(w) == [worker |-> w, requests |-> gaggle_workers[w].pending]

\* Worker w streams the metrics it has collected since its last batch.
StreamBatch(w) ==
    /\ gaggle_workers[w].state = "running"
    /\ gaggle_workers[w].pending > 0
    /\ inbox' = Append(inbox, MetricsBatch(w))
    /\ gaggle_workers' = [gaggle_workers EXCEPT ![w].pending = 0]
    /\ UNCHANGED <<gaggle_manager, outside_gaggle>>

\* The manager feeds a batch into its aggregator.
ReceiveBatch ==
    /\ inbox # <<>>
    /\ gaggle_manager.state \in {"running", "stopping"}
    /\ gaggle_manager' =
          [gaggle_manager EXCEPT !.counter = @ + Head(inbox).requests]
    /\ inbox' = Tail(inbox)
    /\ UNCHANGED <<gaggle_workers, outside_gaggle>>

\* Worker w disconnects during the run: the manager marks its share as
\* lost.
Disconnect(w) ==
    /\ gaggle_workers[w].state = "running"
    /\ gaggle_workers' = [gaggle_workers EXCEPT ![w].state = "disconnected"]
    /\ gaggle_manager' = [gaggle_manager EXCEPT !.lost = @ \cup {w}]
    /\ UNCHANGED <<inbox, outside_gaggle>>

\* The deadline: the manager broadcasts Stop.
BroadcastStop ==
    /\ gaggle_manager.state = "running"
    /\ gaggle_manager' = [gaggle_manager EXCEPT !.state = "stopping"]
    /\ UNCHANGED <<gaggle_workers, inbox, outside_gaggle>>

\* Worker w reads Stop, sends its final batch and exits.
WorkerStop(w) ==
    /\ gaggle_manager.state = "stopping"
    /\ gaggle_workers[w].state = "running"
    /\ inbox' = IF gaggle_workers[w].pending > 0
                THEN Append(inbox, MetricsBatch(w))
                ELSE inbox
    /\ gaggle_workers' = [gaggle_workers EXCEPT ![w].state = "exit 0",
                                                ![w].pending = 0]
    /\ UNCHANGED <<gaggle_manager, outside_gaggle>>

\* The final batches are in: the manager proceeds to the reporter.
GaggleReport ==
    /\ gaggle_manager.state = "stopping"
    /\ \A w \in GaggleWorkers :
          gaggle_workers[w].state \in {"exit 0", "disconnected"}
    /\ inbox = <<>>
    /\ gaggle_manager' = [gaggle_manager EXCEPT !.state = "reported"]
    /\ UNCHANGED <<gaggle_workers, inbox, outside_gaggle>>

ManagerStep ==
    \/ \E w \in GaggleWorkers : CheckHandshake(w)
    \/ BroadcastStart
    \/ ReceiveBatch
    \/ BroadcastStop
    \/ GaggleReport

WorkerStep(w) == Handshake(w) \/ StreamBatch(w) \/ WorkerStop(w)

GaggleNext ==
    \/ ManagerStep
    \/ \E w \in GaggleWorkers : WorkerStep(w)
    \/ \E w \in GaggleWorkers : WorkerRequest(w)
    \/ \E w \in GaggleWorkers : Disconnect(w)

SpecGaggle == GaggleInit /\ [][GaggleNext]_vars

\* The manager and every worker that has not disconnected keep running;
\* nothing obliges a user to issue a request or a worker to disconnect.
GaggleFairness ==
    /\ WF_vars(ManagerStep)
    /\ \A w \in GaggleWorkers : WF_vars(WorkerStep(w))

FairSpecGaggle == GaggleInit /\ [][GaggleNext]_vars /\ GaggleFairness

----------------------------------------------------------------------------
(* Properties of logger_main.                                              *)

\* The receive loop has ended.
LoopExited == pc \in {"flush", "done"}

\* The last message received is the None that ends logging.
GotNone == received # <<>> /\ received[Len(received)] = None

\* The events received so far that belong to stream s.
EventsFor(s) == { i \in 1..Len(received) : received[i].variant = s }

\* The number of header lines logger_main writes to an open log of stream s.
HeaderCount(s) == IF configuration.format[s] = "Csv" THEN 1 ELSE 0

\* The number of writes to stream s that failed.
FailedWrites(s) == log_file[s].writes - Len(log_file[s].lines)

\* The open streams in the documented flush order.
DocumentedFlushes ==
    SelectSeq(<<"Debug", "Request", "Task", "Error">>,
              LAMBDA s : log_file[s].open)

\* C1: a None is the last message logger_main receives; no log is flushed
\* while the receive loop runs (so none before the None is received); and
\* once logger_main has exited, every open log has been flushed exactly once,
\* in the order debug, request, task, error.
C1_FlushOnNone ==
    /\ \A i \in 1..Len(received) : received[i] = None => i = Len(received)
    /\ GotNone => LoopExited
    /\ pc # "done" =>
          /\ flushed = <<>>
          /\ \A s \in GooseLog : log_file[s].flushes = 0
    /\ pc = "done" =>
          /\ flushed = DocumentedFlushes
          /\ \A s \in GooseLog :
                log_file[s].flushes = IF log_file[s].open THEN 1 ELSE 0

\* C1 witness: logger_main received None after an event, flushed four open
\* logs and exited.
C1_Witness ==
    /\ pc = "done"
    /\ GotNone
    /\ Len(received) = 2
    /\ Len(flushed) = 4

\* C2: every event line in a log file is the rendering of a received event of
\* that file's own type; the events of a stream whose
\* file is not open are dropped and leave every file as it was, so a closed
\* stream has no line and no write.
C2_OwnFileOnly ==
    \A s \in GooseLog :
        /\ \A i \in 1..Len(log_file[s].lines) :
              log_file[s].lines[i].type = "event" =>
                  /\ log_file[s].lines[i].variant = s
                  /\ \E j \in EventsFor(s) :
                        received[j].id = log_file[s].lines[i].id
        /\ ~log_file[s].open =>
              /\ log_file[s].lines = <<>>
              /\ log_file[s].writes = 0
        /\ log_file[s].writes <= HeaderCount(s) + Cardinality(EventsFor(s))

\* C2 witness: one event was written to the open file of its type and another
\* event, whose file is not open, was dropped.
C2_Witness ==
    /\ \E s \in GooseLog :
          /\ ~log_file[s].open
          /\ EventsFor(s) # {}
    /\ \E s \in GooseLog :
          \E i \in 1..Len(log_file[s].lines) :
              log_file[s].lines[i].type = "event"

\* C3: a stream whose file failed to open stays disabled: it is not open, no
\* header or record is written to it and it is never flushed; and every open
\* stream has had one write per event of its type received (plus its header).
C3_FailedOpenDisabled ==
    /\ \A s \in create_errors :
          /\ ~log_file[s].open
          /\ log_file[s].lines = <<>>
          /\ log_file[s].writes = 0
          /\ log_file[s].flushes = 0
          /\ \A i \in 1..Len(flushed) : flushed[i] # s
    /\ \A s \in GooseLog :
          log_file[s].open =>
              log_file[s].writes = HeaderCount(s) + Cardinality(EventsFor(s))

\* C3 witness: one file failed to open, an event for it was dropped, an event
\* of another stream was written, and logger_main has exited.
C3_Witness ==
    /\ pc = "done"
    /\ \E s \in create_errors : EventsFor(s) # {}
    /\ \E s \in GooseLog :
          /\ log_file[s].open
          /\ \E i \in 1..Len(log_file[s].lines) :
                log_file[s].lines[i].type = "event"

\* C4: logger_main never returns an error: it has returned exactly when it
\* is done, with Ok(()), and it leaves the receive loop only on None or when
\* the channel is empty with every sender gone, whatever open, write or flush
\* failed.
C4_NeverFails ==
    /\ result \in {"running", "Ok"}
    /\ pc = "done" <=> result = "Ok"
    /\ LoopExited => GotNone \/ (~senders /\ channel = <<>>)

\* C4 witness: a file failed to open, a write failed, a flush failed, a
\* message was still consumed after the failed write, and logger_main
\* returned Ok(()).
C4_Witness ==
    /\ result = "Ok"
    /\ create_errors # {}
    /\ \E s \in GooseLog :
          /\ FailedWrites(s) > 0
          /\ log_file[s].flushes = 1
          /\ ~log_file[s].synced
    /\ Len(received) = 2
    /\ received[1] # None

\* C5 (as claimed): a stream with failed writes has exactly one failure
\* message naming its file, however many of its writes failed.
C5_OneWarningPerFile ==
    \A s \in GooseLog :
        FailedWrites(s) > 0 => warnings[configuration.log[s]] = 1

\* C6: after the logs are opened, an open Csv stream has its header as first
\* line and no other header line; a stream that is not Csv, or not open, has
\* no header line.
C6_CsvHeaderFirst ==
    pc # "open" =>
        \A s \in GooseLog :
            /\ (log_file[s].open /\ configuration.format[s] = "Csv") =>
                  /\ log_file[s].lines # <<>>
                  /\ log_file[s].lines[1] = HeaderLine(s)
            /\ \A i \in 1..Len(log_file[s].lines) :
                  log_file[s].lines[i].type = "header" =>
                      /\ i = 1
                      /\ configuration.format[s] = "Csv"

\* C6 witness: an open Csv log holds its header followed by an event record,
\* and an open log in another format holds an event record and no header.
C6_Witness ==
    /\ \E s \in GooseLog :
          /\ configuration.format[s] = "Csv"
          /\ Len(log_file[s].lines) = 2
          /\ log_file[s].lines[2].type = "event"
    /\ \E s \in GooseLog :
          /\ configuration.format[s] # "Csv"
          /\ Len(log_file[s].lines) = 1
          /\ log_file[s].lines[1].type = "event"

----------------------------------------------------------------------------
(* Properties of the CSV rendering.                                        *)

\* The headers as documented, column by column.
DocumentedHeader(kind) ==
    CASE kind = "Request" ->
            <<"elapsed", "raw", "name", "final_url", "redirected",
              "response_time", "status_code", "success", "update", "user",
              "error", "coordinated_omission_elapsed", "user_cadence">>
      [] kind = "Task" ->
            <<"elapsed", "taskset_index", "task_index", "name", "run_time",
              "success", "user">>
      [] kind = "Error" ->
            <<"elapsed", "raw", "name", "final_url", "redirected",
              "response_time", "status_code", "user", "error">>
      [] kind = "Debug" -> <<"tag", "request", "header", "body">>

\* A row has been rendered.
Rendered == csv_cells # <<>>

\* The documented quoting rule: every double quote is doubled.
RECURSIVE DoubleQuotes(_)
DoubleQuotes(s) ==
    IF s = <<>> THEN <<>>
    ELSE (IF Head(s) = "\"" THEN <<"\"", "\"">> ELSE <<Head(s)>>)
             \o DoubleQuotes(Tail(s))

\* Reading one CSV record back into fields: fields are separated by commas;
\* a field that starts with a double quote runs to its closing double quote,
\* a doubled double quote inside it standing for one; the record ends at a
\* line break outside quotes.
RECURSIVE ReadCsv(_, _, _, _)
ReadCsv(row, mode, field, fields) ==
    IF row = <<>> THEN Append(fields, field)
    ELSE LET c == Head(row)
             rest == Tail(row)
         IN  CASE mode = "start" /\ c = "\"" ->
                     ReadCsv(rest, "quoted", <<>>, fields)
               [] mode = "quoted" /\ c = "\"" ->
                     ReadCsv(rest, "closing", field, fields)
               [] mode = "quoted" /\ c # "\"" ->
                     ReadCsv(rest, "quoted", Append(field, c), fields)
               [] mode = "closing" /\ c = "\"" ->
                     ReadCsv(rest, "quoted", Append(field, c), fields)
               [] mode # "quoted" /\ c = "," ->
                     ReadCsv(rest, "start", <<>>, Append(fields, field))
               [] mode # "quoted" /\ c = "\n" -> Append(fields, field)
               [] OTHER -> ReadCsv(rest, "plain", Append(field, c), fields)

\* C7: the header of every stream equals the documented one, column by
\* column, and a row prepare_csv renders has one value per header column, the
\* value of the field that column names, in the same order.
C7_HeaderAndRowColumns ==
    /\ \A kind \in GooseLog : csv_header(kind) = DocumentedHeader(kind)
    /\ Rendered =>
          /\ Len(csv_cells) = Len(csv_header(csv_input.kind))
          /\ \A i \in 1..Len(csv_cells) :
                csv_cells[i].field = csv_header(csv_input.kind)[i]

\* C7 witness: a request row of thirteen values has been rendered.
C7_Witness ==
    /\ Rendered
    /\ csv_input.kind = "Request"
    /\ Len(csv_cells) = 13
    /\ csv_row = prepare_csv(csv_input)

\* C8 (as claimed): in a rendered row every string field (name, url, error,
\* tag, body) stands between double quotes and no numeric or boolean field
\* holds a double quote.
C8_StringFieldsQuoted ==
    Rendered =>
        \A i \in 1..Len(csv_cells) :
            LET cell == csv_cells[i]
            IN  /\ (FieldType(cell.field) = "string" \/ cell.field = "body") =>
                      /\ Len(cell.text) >= 2
                      /\ cell.text[1] = "\""
                      /\ cell.text[Len(cell.text)] = "\""
                /\ FieldType(cell.field) \in {"number", "bool"} =>
                      \A j \in 1..Len(cell.text) : cell.text[j] # "\""

\* C9 (as claimed): in a rendered row every quoted field is its content with
\* each double quote doubled, between two double quotes; the double quotes of
\* the row that are not part of a doubled pair are then two per quoted field.
C9_InnerQuotesDoubled ==
    Rendered =>
        \A i \in 1..Len(csv_cells) :
            csv_cells[i].quoted =>
                csv_cells[i].text =
                    <<"\"">> \o DoubleQuotes(csv_cells[i].content) \o <<"\"">>

\* C10 (as claimed): reading a rendered row back gives one field per value,
\* each equal to the value that was rendered.
C10_CsvRoundTrip ==
    Rendered =>
        LET fields == ReadCsv(csv_row, "start", <<>>, <<>>)
        IN  /\ Len(fields) = Len(csv_cells)
            /\ \A i \in 1..Len(csv_cells) : fields[i] = csv_cells[i].content

----------------------------------------------------------------------------
(* Properties of the records written.                                      *)

\* The number of line breaks in a text.
LineBreaks(text) == Cardinality({ i \in 1..Len(text) : text[i] = "\n" })

\* A record has been written.
RecordWritten == pc = "written" /\ file_text # <<>>

\* The format of the record that is being formatted.
RecordFormat == configuration.format[csv_input.kind]

----------------------------------------------------------------------------
(* Properties of setup_loggers.                                            *)

\* setup_loggers has returned.
SetupReturned == pc \in {"returned", "open"}

\* The path of a log once the defaults are resolved: the run time option,
\* or the declared default when the option is empty, or "".
ResolvedLog(s) ==
    IF options.log[s] # "" THEN options.log[s]
    ELSE IF defaults.log[s] # NoValue THEN defaults.log[s][1]
    ELSE ""

\* C20: nothing is spawned before setup_loggers returns, and once it has
\* returned, the join handle and the Sender are both present or both absent;
\* they are present, and one logger thread has been spawned, exactly when the
\* process is not a Manager and at least one of the four log paths is not
\* empty after the defaults are resolved; otherwise nothing was spawned.
C20_LoggerOnlyIfEnabled ==
    /\ ~SetupReturned => spawned = 0
    /\ SetupReturned =>
          /\ setup_result.handle = setup_result.tx
          /\ setup_result.handle <=>
                (~options.manager /\ \E s \in GooseLog : ResolvedLog(s) # "")
          /\ spawned = IF setup_result.handle THEN 1 ELSE 0
          /\ pc = "open" <=> setup_result.handle

\* C20 witness: the logger was spawned for a process that is not a Manager,
\* whose only non-empty path comes from a declared default.
C20_Witness ==
    /\ SetupReturned
    /\ ~options.manager
    /\ \A s \in GooseLog : options.log[s] = ""
    /\ setup_result.handle
    /\ spawned = 1

----------------------------------------------------------------------------
(* Properties of the throttle and the run-time deadline.                   *)

\* The requests issued at the instants of a window.
RECURSIVE RequestsIn(_)
RequestsIn(window) ==
    IF window = <<>> THEN 0
    ELSE Head(window).requests + RequestsIn(Tail(window))

\* All requests issued so far.
TotalRequests == issued.total

\* The requests issued in the 1-second window [now - 1s, now] (or since the
\* throttle was created, if that is less than a second ago).
WindowRequests == RequestsIn(issued.window)

\* The tokens in the channel when that window started.
WindowStartTokens == Head(issued.window).tokens

\* The ticks hatching takes: the last user is due (users - 1) pauses after
\* the first.
HatchTicks == (attack.users - 1) * HatchInterval(attack)

C15_WindowBound == WindowRequests <= attack.throttle_requests + 1

\* C15 (amended): in every 1-second window the requests issued are at most
\* the tokens in the channel when the window starts plus throttle_requests
\* refills: at most 2 x throttle_requests, and at most throttle_requests + 1
\* when the window starts with no more than one token in the channel.
C15_WindowBoundFromLevel ==
    /\ WindowRequests <= WindowStartTokens + attack.throttle_requests
    /\ WindowRequests <= 2 * attack.throttle_requests
    /\ WindowStartTokens <= 1 =>
          WindowRequests <= attack.throttle_requests + 1

\* C15 witness: a 1-second window that started with a full channel of two
\* tokens saw four requests.
C15_Witness ==
    /\ attack.throttle_requests = 2
    /\ Len(issued.window) = 3
    /\ WindowStartTokens = 2
    /\ WindowRequests = 4

----------------------------------------------------------------------------
(* Properties of a whole run.                                              *)

\* The grace period is over: the controller no longer waits for the users.
GracePassed ==
    shutdown \in {"send_none", "join_logger", "finalise", "report", "done"}

\* Every user task has exited.
UsersExited == \A u \in Hatched : user_state[u] = "exited"

\* logger_main still holds the file of stream s: its BufWriter is dropped,
\* and the file closed, when logger_main returns.
handle_held(s) == log_file[s].open /\ result = "running"

\* Every open log was flushed, logger_main has returned, and no file is held.
LoggerClosed ==
    /\ pc = "done"
    /\ \A s \in GooseLog : log_file[s].open => log_file[s].flushes = 1
    /\ \A s \in GooseLog : ~handle_held(s)

\* C19: once the deadline and the grace period have passed, eventually every
\* user task has exited, logger_main has flushed every open file and
\* returned, and no log file is held.
C19_CleanShutdown == GracePassed ~> (UsersExited /\ LoggerClosed)

\* C19 witness: the grace period ended with the user still in a request;
\* the user has exited since, and logger_main has flushed the request log
\* and returned.
C19_Witness ==
    /\ abandoned # {}
    /\ UsersExited
    /\ LoggerClosed
    /\ log_file["Request"].open
    /\ phase = "Stopped"

\* The run has ended: the report was emitted.
RunEnded == phase = "Stopped"

\* The records of the request log: its lines but the header.
RequestRecords ==
    Len(SelectSeq(log_file["Request"].lines, LAMBDA l : l.type = "event"))

\* The request log was opened and no write to it failed.
NoLoggerDrops == log_file["Request"].open /\ FailedWrites("Request") = 0

\* The per-endpoint counter, summed over the endpoints.
TotalCounter ==
    SumOver([e \in Endpoints |-> aggregator[e].counter], Endpoints)

AllSucceeded == \A e \in Endpoints : hits[e].failed = 0

\* counter == success_count + fail_count, for every endpoint.
CountersAddUp ==
    \A e \in Endpoints :
        aggregator[e].counter =
            aggregator[e].success_count + aggregator[e].fail_count

\* The counters of every endpoint are the hits of the server, all of them
\* successes.
SuccessesAreHits ==
    \A e \in Endpoints :
        /\ aggregator[e].fail_count = 0
        /\ aggregator[e].success_count = aggregator[e].counter
        /\ aggregator[e].counter = hits[e].seen

ConfiguredUsers ==
    IF options.users # NoValue THEN options.users[1] ELSE defaults.users[1]

Joined == IF GracePassed THEN Hatched \ abandoned ELSE {}

\* The controller has sent None on the log channel.
NoneSent == \E i \in 1..Len(log_senders) : log_senders[i] = 0

\* The log events the joined users have sent, by message id.
EventsOfJoined == { i \in 1..Len(log_senders) : log_senders[i] \in Joined }

\* logger_main has received the event.
EventReceived(i) == \E k \in 1..Len(received) : received[k].id = i

\* The event is a record of the log of stream s.
EventWrittenTo(i, s) ==
    \E k \in 1..Len(log_file[s].lines) :
        log_file[s].lines[k].type = "event" /\ log_file[s].lines[k].id = i

\* The event is a record of some log.
EventWritten(i) == \E s \in GooseLog : EventWrittenTo(i, s)

\* Each step of the shutdown is taken after the one before it is over:
\* None is sent once the users are joined, the aggregator is finalised once
\* logger_main has returned, and the report is emitted once the aggregator
\* has drained its channel.
ShutdownInOrder ==
    /\ shutdown = "none" <=> phase \in {"Init", "Starting", "Hatching",
                                        "Running"}
    /\ GracePassed => \A u \in Hatched \ abandoned : user_state[u] = "exited"
    /\ NoneSent <=> shutdown \in {"join_logger", "finalise", "report", "done"}
    /\ shutdown \in {"finalise", "report", "done"} => pc = "done"
    /\ shutdown \in {"report", "done"} => metric_channel = <<>>
    /\ RunEnded <=> shutdown = "done"

\* None is enqueued after the last event of every joined user.
NoneAfterJoined ==
    \A i, j \in 1..Len(log_senders) :
        (log_senders[i] = 0 /\ i < j) => log_senders[j] \notin Joined

\* C18 as claimed: the shutdown is in the documented order, None is enqueued
\* on the log channel after the last event of every joined user, and every
\* event a joined user sent is written once logger_main has exited.
C18_EventsWritten ==
    /\ ShutdownInOrder
    /\ NoneAfterJoined
    /\ pc = "done" => \A i \in EventsOfJoined : EventWritten(i)

\* C18 amended: every event a joined user sent is received before
\* logger_main exits, and is a record of the log of its type unless that
\* log is disabled or failed to open, or a write to it failed.
C18_EventsReceived ==
    /\ ShutdownInOrder
    /\ NoneAfterJoined
    /\ pc = "done" =>
          \A i \in EventsOfJoined :
              \E k \in 1..Len(received) :
                  /\ received[k].id = i
                  /\ LET s == received[k].variant
                     IN  (log_file[s].open /\ FailedWrites(s) = 0) =>
                             EventWrittenTo(i, s)

\* C18 witness: two users were joined, one of them after a failed request;
\* logger_main received its Request and Error events and then None, wrote
\* the Request event to the request log, and exited.
C18_Witness ==
    /\ RunEnded
    /\ Joined = 1..MaxAttackUsers
    /\ Len(received) = 3
    /\ received[3] = None
    /\ EventsOfJoined = {1, 2}
    /\ EventWrittenTo(1, "Request")
    /\ ~EventWritten(2)

----------------------------------------------------------------------------
(* Properties of configure_loggers.                                        *)

\* setup_loggers has returned on a process that is no Manager: it has run
\* configure_loggers.
Configured_loggers == SetupReturned /\ ~options.manager

\* C21: on a process that is no Manager, each of debug_format, error_format,
\* request_format and task_format is the format of the run time option if
\* one was given, otherwise the declared default if one is set, otherwise
\* Json.
C21_FormatPrecedence ==
    Configured_loggers =>
        \A s \in GooseLog :
            configuration.format[s] =
                IF options.format[s] # NoValue THEN options.format[s][1]
                ELSE IF defaults.format[s] # NoValue
                     THEN defaults.format[s][1]
                     ELSE "Json"

\* C21 witness: the debug format comes from the option although a default
\* is set, the error format from the default, the task format is Json.
C21_Witness ==
    /\ Configured_loggers
    /\ options.format["Debug"] = Some("Csv")
    /\ defaults.format["Debug"] = Some("Pretty")
    /\ configuration.format["Debug"] = "Csv"
    /\ options.format["Error"] = NoValue
    /\ configuration.format["Error"] = "Pretty"
    /\ options.format["Task"] = NoValue
    /\ defaults.format["Task"] = NoValue
    /\ configuration.format["Task"] = "Json"

\* C22: each of debug_log, error_log, request_log and task_log is the path
\* of the run time option if that is not empty, otherwise the declared
\* default if one is set, otherwise the empty string; and a log with the
\* empty path is not opened.
C22_PathPrecedence ==
    /\ Configured_loggers =>
          \A s \in GooseLog :
              /\ options.log[s] # "" => configuration.log[s] = options.log[s]
              /\ (options.log[s] = "" /\ defaults.log[s] # NoValue) =>
                    configuration.log[s] = defaults.log[s][1]
              /\ (options.log[s] = "" /\ defaults.log[s] = NoValue) =>
                    configuration.log[s] = ""
    /\ \A created \in BOOLEAN :
          ~open_log_file("", buffer_capacity(configuration, "Debug"),
                         created).open

\* C22 witness: the debug log has the path of the option although the
\* default is set to another value, the error log has the path of its
\* default, and the task log, set by neither, is disabled.
C22_Witness ==
    /\ Configured_loggers
    /\ options.log["Debug"] = PathOf("Debug")
    /\ defaults.log["Debug"] = Some("")
    /\ configuration.log["Debug"] = PathOf("Debug")
    /\ options.log["Error"] = ""
    /\ defaults.log["Error"] = Some(PathOf("Error"))
    /\ configuration.log["Error"] = PathOf("Error")
    /\ options.log["Task"] = ""
    /\ defaults.log["Task"] = NoValue
    /\ configuration.log["Task"] = ""

\* ---------------------------------------------------------------------
\* C30: buffer capacities of the four logs.
\* ---------------------------------------------------------------------

MiB8 == 8 * 1024 * 1024

KiB64 == 64 * 1024

\* logger_main has opened the log files.
LogsOpened == pc # "open"

\* C30: once the logger has opened its files, the buffer of the debug log
\* holds 8 MiB exactly when no_debug_body is false, the buffer of the
\* request log holds 8 MiB exactly when request_body is true, each of them
\* holds 64 KiB otherwise, and the buffers of the task and error logs hold
\* 64 KiB whatever the two knobs are.
C30_BufferCapacities ==
    LogsOpened =>
        \A s \in GooseLog :
            log_file[s].open =>
                /\ log_file[s].capacity \in {MiB8, KiB64}
                /\ s = "Debug" =>
                      (log_file[s].capacity = MiB8
                          <=> ~configuration.no_debug_body)
                /\ s = "Request" =>
                      (log_file[s].capacity = MiB8
                          <=> configuration.request_body)
                /\ s \in {"Task", "Error"} => log_file[s].capacity = KiB64

\* All four logs are open, bodies are logged to the request log and not to
\* the debug log: the request log has the large buffer and the debug log
\* the small one.
C30_Witness ==
    /\ LogsOpened
    /\ \A s \in GooseLog : log_file[s].open
    /\ configuration.request_body
    /\ configuration.no_debug_body
    /\ log_file["Request"].capacity = MiB8
    /\ log_file["Debug"].capacity = KiB64
    /\ log_file["Task"].capacity = KiB64

\* ---------------------------------------------------------------------
\* C26: a configured log file exists, truncated, from the start of the
\* logger, and stays empty without events of its kind.
\* ---------------------------------------------------------------------

\* An event of kind s was sent to the logger.
EventSentFor(s) ==
    \/ \E i \in 1..Len(received) : received[i].variant = s
    \/ \E i \in 1..Len(channel) : channel[i].variant = s

\* File::create was called for the log of stream s and returned a file.
FileCreated(s) ==
    LogsOpened /\ configuration.log[s] # "" /\ s \notin create_errors

\* logger_main has returned.
LoggerReturned == pc = "done"

\* C26: as soon as the logger has started, the file of every log whose
\* path is configured and that File::create could create is open and holds
\* nothing of what it held before, whether or not an event of its kind was
\* sent; and when the logger has returned, a file in a format other than
\* Csv holds no line at all if no event of its kind was sent, whatever was
\* logged to the other files.
C26_CreatedEmpty ==
    \A s \in GooseLog :
        /\ FileCreated(s) =>
              /\ log_file[s].open
              /\ \A i \in 1..Len(log_file[s].lines) :
                    log_file[s].lines[i] # StaleLine(s)
        /\ (FileCreated(s) /\ ~EventSentFor(s)
                /\ configuration.format[s] # "Csv")
              => log_file[s].lines = <<>>

\* The logger has returned after a run over files left by a previous run
\* (the task log could not be created and still holds its stale line): an
\* error event was written to the error log, no request event was sent,
\* and the request log, in the Raw format, was created and is empty.
C26_Witness ==
    /\ LoggerReturned
    /\ log_file["Task"].lines = <<StaleLine("Task")>>
    /\ FileCreated("Request")
    /\ configuration.format["Request"] = "Raw"
    /\ ~EventSentFor("Request")
    /\ log_file["Request"].open
    /\ log_file["Request"].lines = <<>>
    /\ EventSentFor("Error")
    /\ Len(log_file["Error"].lines) = 1

\* ---------------------------------------------------------------------
\* C27: the log channel is unbounded.
\* ---------------------------------------------------------------------

\* A sender exists, the receiver exists, and the run has events left to
\* send.
MaySend == senders /\ pc # "done" /\ sent < MaxSends

\* C27: while the receiver of the log channel exists, a sender can always
\* send, whatever the number of pending messages and wherever the logger
\* is, and every message sent so far was accepted: it is pending in the
\* channel or was received.
C27_SendNeverBlocks ==
    /\ MaySend => ENABLED SendLog
    /\ pc # "done" => Len(channel) + Len(received) = sent

\* The logger has not even opened its files, MaxSends messages are pending,
\* all of them accepted.
C27_Witness ==
    /\ pc = "open"
    /\ senders
    /\ sent = MaxSends
    /\ Len(channel) = MaxSends
    /\ \E i \in 1..Len(channel) : channel[i] # None

\* ---------------------------------------------------------------------
\* C28: per-user order of the events of one kind in their log file.
\* ---------------------------------------------------------------------

\* The positions of the lines of log file s that hold an event.
EventLines(s) ==
    { i \in 1..Len(log_file[s].lines) : log_file[s].lines[i].type = "event" }

\* The user that sent the event of line i of log file s.
SenderOfLine(s, i) == log_senders[log_file[s].lines[i].id]

Parsed == format_parsed # <<>>

\* C29: for each of the four formats, from_str applied to the Debug name
\* of the format, or to a string that differs from it in letter case
\* only, returns Ok of that format.
C29_FromStrOfDebugName ==
    Parsed =>
        \A format \in GooseLogFormat :
            format_str \in CaseVariants(debug_name(format))
                => format_parsed[1] = Ok(format)

\* from_str has read "pReTtY", which is neither the Debug name nor all
\* lower case, as Pretty.
C29_Witness ==
    /\ Parsed
    /\ format_str = <<"p", "R", "e", "T", "t", "Y">>
    /\ format_str # debug_name("Pretty")
    /\ format_parsed[1] = Ok("Pretty")

\* ---------------------------------------------------------------------
\* C23: the fingerprint check of the handshake.
\* ---------------------------------------------------------------------

\* The task sets of worker w have another fingerprint than the manager's.
FingerprintDiffers(w) ==
    fingerprint(gaggle_workers[w].task_sets)
        # fingerprint(gaggle_manager.task_sets)

\* The manager has read the handshake of worker w and accepted it.
WorkerAccepted(w) ==
    gaggle_workers[w].state \in {"accepted", "running", "exit 0",
                                 "disconnected"}

\* The manager has read the handshake of worker w and rejected it.
WorkerRejected(w) == gaggle_workers[w].state = "exit 1"

HashChecked ==
    \A w \in GaggleWorkers :
        /\ WorkerRejected(w) =>
              FingerprintDiffers(w) /\ ~gaggle_manager.no_hash_check
        /\ WorkerAccepted(w) =>
              ~FingerprintDiffers(w) \/ gaggle_manager.no_hash_check

GaggleReported == gaggle_manager.state = "reported"

\* C23: a worker whose handshake the manager has read is rejected exactly
\* when its fingerprint differs from the manager's and no_hash_check is
\* not set; and a gaggle whose manager has no_hash_check set runs to
\* completion, the manager reaches its report, whatever task sets the
\* workers registered.
C23_HashCheck ==
    /\ []HashChecked
    /\ gaggle_manager.no_hash_check ~> GaggleReported

\* The manager, with no_hash_check set, has reported a run in which the
\* fingerprint of every worker differed from its own and every worker ran
\* to its end.
C23_Witness ==
    /\ GaggleReported
    /\ gaggle_manager.no_hash_check
    /\ gaggle_manager.task_sets = FooIndexAbout
    /\ \A w \in GaggleWorkers :
          /\ FingerprintDiffers(w)
          /\ gaggle_workers[w].state = "exit 0"
    /\ gaggle_manager.counter > 0

\* ---------------------------------------------------------------------
\* C24: the partition of the users, and the manager's counters against
\* the workers' request logs.
\* ---------------------------------------------------------------------

\* The manager has broadcast Start.
GaggleStarted == gaggle_manager.state \in {"running", "stopping", "reported"}

\* The workers user u is assigned to.
WorkersOf(u) == { w \in GaggleWorkers : u \in gaggle_workers[w].users }

\* Every user is assigned to the one worker that round-robin by user id
\* gives it.
UsersPartitioned ==
    GaggleStarted =>
        \A u \in 1..gaggle_manager.users :
            WorkersOf(u) = {worker_of(u, gaggle_manager.expect_workers)}

\* The records in the request logs of all workers.
WorkerRecords ==
    SumOver([w \in GaggleWorkers |-> gaggle_workers[w].records],
            GaggleWorkers)

\* Every request of every worker put a record into the request log and a
\* metric into a batch.
NothingDropped ==
    \A w \in GaggleWorkers :
        /\ gaggle_workers[w].records = gaggle_workers[w].requests
        /\ gaggle_workers[w].dropped_metrics = 0

BodyLogs == {"Debug", "Request"}

\* Either knob allows bodies to be captured.
EitherAllowsBodies ==
    ~configuration.no_debug_body \/ configuration.request_body

\* The knob of log s allows bodies in that log.
AllowsBodies(s) ==
    IF s = "Debug" THEN ~configuration.no_debug_body
    ELSE configuration.request_body

\* C31 as stated: the buffer of an open log that carries bodies holds
\* 8 MiB whenever either knob allows bodies, and 64 KiB only when neither
\* does.
C31_CapacityFromUnion ==
    LogsOpened =>
        \A s \in BodyLogs :
            log_file[s].open =>
                log_file[s].capacity =
                    IF EitherAllowsBodies THEN MiB8 ELSE KiB64

\* C31, amended: the buffer of an open log that carries bodies holds 8 MiB
\* when its own knob allows bodies and 64 KiB when it does not, whatever
\* the other knob is; so, with both logs open, one of them has a buffer of
\* 8 MiB exactly when either knob allows bodies, and both have 64 KiB only
\* when neither does.
C31_CapacityFromOwnKnob ==
    LogsOpened =>
        /\ \A s \in BodyLogs :
              log_file[s].open =>
                  log_file[s].capacity =
                      IF AllowsBodies(s) THEN MiB8 ELSE KiB64
        /\ (\A s \in BodyLogs : log_file[s].open) =>
              ((\E s \in BodyLogs : log_file[s].capacity = MiB8)
                  <=> EitherAllowsBodies)

\* Both logs are open, only the debug log may carry bodies: the debug log
\* has the large buffer, the request log the small one, although a knob
\* allows bodies.
C31_Witness ==
    /\ LogsOpened
    /\ \A s \in BodyLogs : log_file[s].open
    /\ ~configuration.no_debug_body
    /\ ~configuration.request_body
    /\ EitherAllowsBodies
    /\ log_file["Debug"].capacity = MiB8
    /\ log_file["Request"].capacity = KiB64

\* ---------------------------------------------------------------------
\* C32: configure_loggers on a Manager.
\* ---------------------------------------------------------------------

\* The path configure_loggers resolves for log s.
ResolvedPath(s) ==
    IF options.log[s] # "" THEN options.log[s]
    ELSE IF defaults.log[s] # NoValue THEN defaults.log[s][1]
    ELSE ""

\* C32: a call of configure_loggers on a Manager leaves each of the four
\* formats as it was, the run time value if there was one and None if
\* there was none; a call on a non-Manager leaves each of the four formats
\* Some; and either call resolves each path to the run time option or
\* else the declared default.
C32_ManagerFormats ==
    [][pc = "configure" =>
          /\ options.manager => options'.format = options.format
          /\ ~options.manager =>
                \A s \in GooseLog : options'.format[s] # NoValue
          /\ \A s \in GooseLog : options'.log[s] = ResolvedPath(s)]_vars

\* configure_loggers has run on a Manager: the task format is still None
\* although a default is declared for it, the debug format is the run
\* time value, and the debug log has the declared default path.
C32_Witness ==
    /\ pc = "configured"
    /\ options.manager
    /\ options.format["Task"] = NoValue
    /\ defaults.format["Task"] = Some("Pretty")
    /\ options.format["Debug"] = Some("Csv")
    /\ defaults.log["Debug"] = Some(PathOf("Debug"))
    /\ options.log["Debug"] = PathOf("Debug")

\* ---------------------------------------------------------------------
\* C38: configure_loggers is idempotent.
\* ---------------------------------------------------------------------

\* C38: a second call of configure_loggers with the same defaults leaves
\* all paths, all formats and request_body as the first call left them.
C38_Idempotent ==
    [][pc = "configured" =>
          /\ options'.log = options.log
          /\ options'.format = options.format
          /\ options'.request_body = options.request_body]_vars

\* configure_loggers has run twice on a non-Manager whose request path,
\* error format and request_body came from the declared defaults and whose
\* task format is the built-in Json.
C38_Witness ==
    /\ pc = "configured again"
    /\ ~options.manager
    /\ defaults.log["Error"] = Some(PathOf("Error"))
    /\ options.log["Error"] = PathOf("Error")
    /\ defaults.format["Error"] = Some("Pretty")
    /\ options.format["Error"] = Some("Pretty")
    /\ defaults.format["Task"] = NoValue
    /\ options.format["Task"] = Some("Json")
    /\ defaults.request_body = Some(TRUE)
    /\ options.request_body

\* ---------------------------------------------------------------------
\* C34: format_message never reaches unreachable!().
\* ---------------------------------------------------------------------

\* setup_loggers has spawned a logger thread.
ThreadSpawned == spawned = 1 /\ setup_result.handle

\* An event of kind s was received, and so formatted.
EventFormatted(s) ==
    \E i \in 1..Len(received) : received[i].variant = s

\* C34: in a logger thread that setup_loggers has spawned each of the four
\* formats is Some, and the thread has not panicked in format_message,
\* whatever events it has received and whether or not their files are
\* open.
C34_FormatIsSome ==
    ThreadSpawned =>
        /\ \A s \in GooseLog : configuration.format[s] # "None"
        /\ result # "panic"
        /\ pc # "panicked"

\* The thread has formatted an error event, whose log is disabled and
\* whose format was given neither as an option nor as a default, and a
\* request event, whose file failed to open, and has not panicked.
C34_Witness ==
    /\ ThreadSpawned
    /\ EventFormatted("Error")
    /\ configuration.log["Error"] = ""
    /\ options.format["Error"] = NoValue
    /\ defaults.format["Error"] = NoValue
    /\ configuration.format["Error"] = "Json"
    /\ EventFormatted("Request")
    /\ "Request" \in create_errors
    /\ ~log_file["Request"].open
    /\ result # "panic"

\* ---------------------------------------------------------------------
\* C35: the first None on the channel ends logging.
\* ---------------------------------------------------------------------

\* Every message enqueued so far, in the order of the channel.
Enqueued == received \o channel

\* The positions of the Nones among the enqueued messages.
NonePositions == { i \in 1..Len(Enqueued) : Enqueued[i] = None }

\* The position of the first None.
FirstNone == CHOOSE i \in NonePositions : \A j \in NonePositions : i <= j

\* The events of kind s enqueued before the first None.
EventsBeforeNone(s) ==
    { i \in 1..Len(Enqueued) : i < FirstNone /\ Enqueued[i].variant = s }

\* The events enqueued after the first None.
EventsAfterNone ==
    { i \in 1..Len(Enqueued) : i > FirstNone /\ Enqueued[i] # None }

\* The event enqueued at position i is a line of log file s.
LineOf(s, i) ==
    \E k \in 1..Len(log_file[s].lines) :
        /\ log_file[s].lines[k].type = "event"
        /\ log_file[s].lines[k].id = Enqueued[i].id

\* No event enqueued after the first None is a line of any file.
NothingAfterNone ==
    NonePositions # {} =>
        \A i \in EventsAfterNone : \A s \in GooseLog : ~LineOf(s, i)

\* The writes of the CSV header to log file s.
HeaderWrites(s) ==
    IF log_file[s].open /\ writes_header(configuration.format[s])
    THEN 1 ELSE 0

\* C35 as stated: once the first None is received, every event enqueued
\* before it whose file is open is a line of that file, and no event
\* enqueued after it ever is a line of any file.
C35_WrittenBeforeNone ==
    /\ GotNone =>
          \A s \in GooseLog :
              log_file[s].open => \A i \in EventsBeforeNone(s) : LineOf(s, i)
    /\ NothingAfterNone

\* C35, amended: once the first None is received, every event enqueued
\* before it whose file is open was handed to a write to that file, one
\* write each, and is a line of the file unless a write to the file
\* failed; and no event enqueued after the first None ever is a line of
\* any file.
C35_HandedToWriteBeforeNone ==
    /\ GotNone =>
          \A s \in GooseLog :
              log_file[s].open =>
                  /\ log_file[s].writes =
                        HeaderWrites(s) + Cardinality(EventsBeforeNone(s))
                  /\ FailedWrites(s) = 0 =>
                        \A i \in EventsBeforeNone(s) : LineOf(s, i)
    /\ NothingAfterNone

\* logger_main has returned after an event and then a None were enqueued:
\* the event was handed to a write and is a line of its file.
C35_Witness ==
    /\ pc = "done"
    /\ GotNone
    /\ FirstNone = Len(Enqueued)
    /\ \E s \in GooseLog :
          /\ log_file[s].open
          /\ EventsBeforeNone(s) # {}
          /\ log_file[s].writes = HeaderWrites(s) + 1
          /\ \A i \in EventsBeforeNone(s) : LineOf(s, i)

\* ---------------------------------------------------------------------
\* C36: logger_main terminates when every sender is dropped.
\* ---------------------------------------------------------------------

\* No None was ever sent.
NoNoneSent == \A i \in 1..Len(Enqueued) : Enqueued[i] # None

\* logger_main has returned Ok(()) with every open file flushed once.
ReturnedOk ==
    /\ pc = "done"
    /\ result = "Ok"
    /\ \A s \in GooseLog : log_file[s].open => log_file[s].flushes = 1

\* C36: once every sender is dropped, with or without a None sent before,
\* logger_main eventually returns Ok(()) with every open file flushed; and
\* whenever it has returned, it has returned Ok(()) after these flushes.
C36_TerminatesWithoutSenders ==
    /\ [](pc = "done" => ReturnedOk)
    /\ ~senders ~> ReturnedOk

\* logger_main has returned Ok(()) although no None was ever sent: it has
\* received an event, the senders were dropped, and it has flushed.
C36_Witness ==
    /\ ReturnedOk
    /\ NoNoneSent
    /\ ~senders
    /\ received # <<>>
    /\ flushed # <<>>

\* write_to_log_file returned after a write that succeeded.
WriteSucceeded == pc = "written" /\ file_text # <<>>

\* The record is larger than the buffer of its log file.
LargerThanBuffer ==
    Len(line_of(formatted_text)) >= log_file[csv_input.kind].capacity

\* C37: a record handed to write_to_log_file for an open file whose write
\* succeeds is appended completely, the formatted message and the newline,
\* whatever its length.
C37_RecordsComplete ==
    WriteSucceeded => accepted_text = line_of(formatted_text)

\* C37, for the records shorter than the buffer capacity: these are
\* accepted whole.
C37_ShortRecordsComplete ==
    (WriteSucceeded /\ ~LargerThanBuffer)
        => accepted_text = line_of(formatted_text)

\* C37: a record of at least the buffer capacity was written with success.
C37_LargeRecordWritten == WriteSucceeded /\ LargerThanBuffer

\* The names from_str accepts, in lower case, with their formats.
AcceptedNames ==
    { <<<<"c", "s", "v">>, "Csv">>, <<<<"j", "s", "o", "n">>, "Json">>,
      <<<<"j", "s", "n">>, "Json">>, <<<<"r", "a", "w">>, "Raw">>,
      <<<<"p", "r", "e", "t", "t", "y">>, "Pretty">> }

\* C33: from_str returns Ok for exactly the strings that are csv, json,
\* jsn, raw or pretty up to letter case, with jsn and json giving Json, and
\* for every other string returns the InvalidOption error that carries
\* that string.
C33_AcceptsExactlyTheNames ==
    Parsed =>
        /\ \A name \in AcceptedNames :
              format_str \in CaseVariants(name[1])
                  => /\ format_parsed[1].ok
                     /\ format_parsed[1].value = name[2]
        /\ (\A name \in AcceptedNames :
                format_str \notin CaseVariants(name[1]))
              => /\ ~format_parsed[1].ok
                 /\ format_parsed[1].value = "InvalidOption"
                 /\ format_parsed[1].invalid = format_str

\* from_str has rejected "xraw", which contains the name raw, and the
\* error carries "xraw".
C33_Witness ==
    /\ Parsed
    /\ format_str = <<"x", "r", "a", "w">>
    /\ ~format_parsed[1].ok
    /\ format_parsed[1].invalid = <<"x", "r", "a", "w">>

====
